---- MODULE Spec2Model ----
(***************************************************************************)
(* notesd: sync server for notes and todos (server/internal/database,      *)
(* server/internal/api) and the web client's sync round (web/src/lib).     *)
(*                                                                         *)
(* Time.  A time.Time carries more precision than the database column,     *)
(* which holds whole milliseconds.  A time.Time is modelled as a number    *)
(* of ticks, TicksPerMilli ticks to the millisecond; a database column     *)
(* and the server clock are numbers of milliseconds.  A nullable value     *)
(* (a pointer or an sql.NullInt64) is the empty sequence when nil           *)
(* and a one-element sequence otherwise.                                   *)
(*                                                                         *)
(* A table is a function from the ids of its rows (the PRIMARY KEY) to     *)
(* the rows.                                                               *)
(***************************************************************************)
EXTENDS Integers, Sequences, FiniteSets, TLC

\* ---------------------------------------------------------------- bounds
MaxClock == 1          \* the server clock runs from 0 to MaxClock ms
TicksPerMilli == 2     \* resolution of a time.Time below one millisecond
MaxBatch == 2          \* records (notes and todos) in one push request
MaxEdits == 1          \* local edits a web client makes before it stops editing
MillisPerSecond == 2   \* length of a second, the resolution of a token's exp
MaxIssued == 3         \* token pairs the server issues in a run

\* ------------------------------------------------------ program constants
maxTitleLen == 500
maxContentLen == 500000
maxTodoContentLen == 10000

\* [auth] access_token_expiry and refresh_token_expiry of the configuration
\* in use, in seconds
accessTokenExpiry == 1
refreshTokenExpiry == 2

\* ------------------------------------------------------------ input sets
Users == {"u1", "u2"}
NoteIds == {"n1"}
TodoIds == {"t1"}
Devices == {"d1", "phone"}
\* the device_id claim of the access tokens in use
TokenDevices == {"d1"}
Nil == << >>

\* times a client can put into a pushed record: every tick up to the end
\* of the millisecond MaxClock, so both sub-millisecond values and values
\* ahead of the server clock occur
MaxTick == MaxClock * TicksPerMilli + (TicksPerMilli - 1)
ClientTimes == 0 .. MaxTick

\* title, content, type and device of the notes clients push; "memo" is a
\* type the schema's CHECK constraint rejects
NoteTexts ==
    { [title |-> "T", content |-> "C", type |-> "note", device |-> "d1"],
      [title |-> "Client", content |-> "client version", type |-> "todo_list",
       device |-> "phone"],
      [title |-> "T", content |-> "C", type |-> "memo", device |-> "d1"] }

\* payload and device of the todos clients push; the second one refers to
\* note n1 and has a due date inside a millisecond
TodoTexts ==
    { [note_id |-> Nil, line_ref |-> Nil, content |-> "buy", due_date |-> Nil,
       completed |-> FALSE, device |-> "d1"],
      [note_id |-> <<"n1">>, line_ref |-> <<"L1">>, content |-> "call",
       due_date |-> <<1>>, completed |-> TRUE, device |-> "phone"] }

\* the notes a push request can carry (model.Note decoded from JSON): a
\* tombstone has deleted_at = modified_at, created_at is modified_at
PushNotes ==
    { [id |-> i, user_id |-> u, title |-> x.title, content |-> x.content,
       type |-> x.type, modified_at |-> m, modified_by_device |-> x.device,
       deleted_at |-> IF d THEN <<m>> ELSE Nil,
       created_at |-> m] :
        i \in NoteIds, u \in Users, x \in NoteTexts, m \in ClientTimes,
        d \in BOOLEAN }

\* the todos a push request can carry (model.Todo decoded from JSON)
PushTodos ==
    { [id |-> i, user_id |-> u, note_id |-> x.note_id, line_ref |-> x.line_ref,
       content |-> x.content, due_date |-> x.due_date,
       completed |-> x.completed, modified_at |-> m,
       modified_by_device |-> x.device,
       deleted_at |-> IF d THEN <<m>> ELSE Nil,
       created_at |-> m] :
        i \in TodoIds, u \in Users, x \in TodoTexts, m \in ClientTimes,
        d \in BOOLEAN }

\* bodies of POST /notes (model.CreateNoteRequest)
CreateNoteRequests ==
    { [title |-> "T", content |-> "C", type |-> "note", device_id |-> "d1"],
      [title |-> "T", content |-> "C", type |-> "", device_id |-> "d1"],
      [title |-> "T", content |-> "C", type |-> "memo", device_id |-> "d1"],
      [title |-> "T501", content |-> "C", type |-> "note", device_id |-> "d1"],
      [title |-> "T", content |-> "C", type |-> "note", device_id |-> ""] }

\* bodies of PUT /notes/{id} (model.UpdateNoteRequest)
UpdateNoteRequests ==
    { [title |-> <<"Client">>, content |-> <<"client version">>,
       type |-> <<"todo_list">>, device_id |-> "phone"],
      [title |-> Nil, content |-> Nil, type |-> <<"memo">>, device_id |-> "d1"],
      [title |-> <<"T501">>, content |-> Nil, type |-> Nil, device_id |-> "d1"],
      [title |-> Nil, content |-> Nil, type |-> Nil, device_id |-> ""] }

\* bodies of POST /todos (model.CreateTodoRequest)
CreateTodoRequests ==
    { [note_id |-> Nil, line_ref |-> Nil, content |-> "buy", due_date |-> Nil,
       device_id |-> "d1"],
      [note_id |-> <<"n2">>, line_ref |-> Nil, content |-> "buy", due_date |-> Nil,
       device_id |-> "d1"],
      [note_id |-> Nil, line_ref |-> Nil, content |-> "buy", due_date |-> Nil,
       device_id |-> ""] }

\* bodies of PUT /todos/{id} (model.UpdateTodoRequest)
UpdateTodoRequests ==
    { [content |-> <<"call">>, due_date |-> <<1>>, completed |-> <<TRUE>>,
       note_id |-> <<"n1">>, line_ref |-> <<"L1">>, device_id |-> "phone"],
      [content |-> Nil, due_date |-> Nil, completed |-> Nil, note_id |-> Nil,
       line_ref |-> Nil, device_id |-> ""] }

\* Spec explores the requests of the tenant Owner in full; the other tenant
\* only pushes the records that OtherPushNote and OtherPushTodo admit
Owner == "u1"

OtherPushNote(in) ==
    /\ in.title = "T" /\ in.type = "note" /\ in.user_id = Owner
    /\ in.modified_at = 0 /\ in.deleted_at = Nil

OtherPushTodo(in) ==
    /\ in.content = "buy" /\ in.user_id = Owner
    /\ in.modified_at = 0 /\ in.deleted_at = Nil

\* values of the since parameter of GET /sync/changes
Cursors == -1 .. MaxClock

\* ------------------------------------------------------------- variables
VARIABLES
    notes,      \* table notes
    todos,      \* table todos
    now,        \* the server clock, in milliseconds
    resp,       \* HTTP status of the last completed request, 0 if none
    push,       \* handleSyncPush: position, locals and response
    pull,       \* handleSyncChanges: response
    maxAccepted, \* history: per id, the greatest modified_at of the pushes
                 \* counted as accepted so far (Nil if none)
    workers,    \* two request workers inside UpsertNote
    chain,      \* a client that pulls with the cursor of its previous pull
    writer,     \* a request worker inside a REST write
    devices,    \* the web clients: local store, cursor, position in doSync
    replay,     \* a client that sends the same push request twice
    refresh_tokens, \* table refresh_tokens
    sessions,   \* the request workers inside the auth handlers
    handed,     \* history: the tokens the server has returned to clients
    spent,      \* history: the refresh tokens a refresh has answered 200 for
    stale,      \* history: ids of the records stored by requests that were
                \* under way when a logout of their user deleted its records
    before,     \* history: table refresh_tokens when the refresh request
                \* in progress looked its token up
    read,       \* the last read request and its response
    users,      \* table users
    limiter     \* the rate limiter of the credential routes, its clients
                \* and the requests it is serving

\* the state of the server when requests are served one at a time
server == <<notes, todos, now, resp, push, pull>>

\* what the other specifications add
authVars == <<refresh_tokens, sessions, handed, spent, stale, before>>

frontVars == <<users, limiter>>

ext == <<replay, authVars, read, frontVars>>

aux == <<maxAccepted, workers, chain, writer, devices, ext>>

vars == <<notes, todos, now, resp, push, pull,
          maxAccepted, workers, chain, writer, devices, ext>>

\* ---------------------------------------------------- timestamp helpers
toMillis(t) == t \div TicksPerMilli

fromMillis(ms) == ms * TicksPerMilli

toNullMillis(t) == IF t = Nil THEN Nil ELSE <<toMillis(t[1])>>

\* a conversion that loses the value and yields NULL
fromNullMillis_mut(n) == Nil

fromNullMillis(n) == IF n = Nil THEN Nil ELSE <<fromMillis(n[1])>>

\* a comparison that lets an equal timestamp win
After_mut(t, u) == t >= u

\* time.Time.After
After(t, u) == t > u

\* model.NowMillis: the clock reading as a time.Time
NowMillis == fromMillis(now)

\* utf8.RuneCountInString on the strings of the input sets
RuneCountInString(s) ==
    CASE s = "T501" -> 501
      [] s = "T500" -> 500
      [] s = "B10001" -> 10001
      [] s = "" -> 0
      [] OTHER -> 1

\* ------------------------------------------------------------ notes table
\* row -> model.Note
scanNote(row) ==
    [id |-> row.id, user_id |-> row.user_id, title |-> row.title,
     content |-> row.content, type |-> row.type,
     modified_at |-> fromMillis(row.modified_at),
     modified_by_device |-> row.modified_by_device,
     deleted_at |-> fromNullMillis(row.deleted_at),
     created_at |-> fromMillis(row.created_at)]

\* the row an INSERT of n writes
noteRow(n) ==
    [id |-> n.id, user_id |-> n.user_id, title |-> n.title,
     content |-> n.content, type |-> n.type,
     modified_at |-> toMillis(n.modified_at),
     modified_by_device |-> n.modified_by_device,
     deleted_at |-> toNullMillis(n.deleted_at),
     created_at |-> toMillis(n.created_at)]

\* CHECK(type IN ('note', 'todo_list'))
NoteTypeOK(type) == type \in {"note", "todo_list"}

\* INSERT INTO notes: fails on a taken primary key or a rejected type
CreateNote(tbl, n) ==
    IF n.id \in DOMAIN tbl \/ ~NoteTypeOK(n.type)
    THEN [err |-> TRUE, tbl |-> tbl]
    ELSE [err |-> FALSE,
          tbl |-> [i \in DOMAIN tbl \cup {n.id} |->
                     IF i = n.id THEN noteRow(n) ELSE tbl[i]]]

\* rows "WHERE id = ? AND user_id = ? AND deleted_at IS NULL"
GetNote(tbl, id, userID) ==
    IF id \in DOMAIN tbl /\ tbl[id].user_id = userID /\ tbl[id].deleted_at = Nil
    THEN <<scanNote(tbl[id])>> ELSE Nil

\* rows "WHERE id = ? AND user_id = ?"
GetNoteAny(tbl, id, userID) ==
    IF id \in DOMAIN tbl /\ tbl[id].user_id = userID
    THEN <<scanNote(tbl[id])>> ELSE Nil

\* UPDATE notes SET title, content, type, modified_at, modified_by_device
\* WHERE id AND user_id AND deleted_at IS NULL; notFound when no row matched
\* the row replaced as a whole (REPLACE INTO): the columns the statement
\* does not name fall back to those of a new row
UpdateNote_mut(tbl, n) ==
    IF GetNote(tbl, n.id, n.user_id) = Nil
    THEN [err |-> FALSE, notFound |-> TRUE, tbl |-> tbl]
    ELSE IF ~NoteTypeOK(n.type)
    THEN [err |-> TRUE, notFound |-> FALSE, tbl |-> tbl]
    ELSE [err |-> FALSE, notFound |-> FALSE,
          tbl |-> [tbl EXCEPT ![n.id] =
                     [@ EXCEPT !.title = n.title, !.content = n.content,
                               !.type = n.type,
                               !.modified_at = toMillis(n.modified_at),
                               !.modified_by_device = n.modified_by_device,
                               !.created_at = toMillis(n.modified_at)]]]

UpdateNote(tbl, n) ==
    IF GetNote(tbl, n.id, n.user_id) = Nil
    THEN [err |-> FALSE, notFound |-> TRUE, tbl |-> tbl]
    ELSE IF ~NoteTypeOK(n.type)
    THEN [err |-> TRUE, notFound |-> FALSE, tbl |-> tbl]
    ELSE [err |-> FALSE, notFound |-> FALSE,
          tbl |-> [tbl EXCEPT ![n.id] =
                     [@ EXCEPT !.title = n.title, !.content = n.content,
                               !.type = n.type,
                               !.modified_at = toMillis(n.modified_at),
                               !.modified_by_device = n.modified_by_device]]]

\* the UPDATE statement without "AND user_id = ?"
DeleteNote_mut(tbl, id, userID, deletedAt, deviceID) ==
    IF id \notin DOMAIN tbl \/ tbl[id].deleted_at # Nil
    THEN [notFound |-> TRUE, tbl |-> tbl]
    ELSE [notFound |-> FALSE,
          tbl |-> [tbl EXCEPT ![id] =
                     [@ EXCEPT !.deleted_at = <<deletedAt>>,
                               !.modified_at = deletedAt,
                               !.modified_by_device = deviceID]]]

\* UPDATE notes SET deleted_at, modified_at, modified_by_device
\* WHERE id AND user_id AND deleted_at IS NULL
DeleteNote(tbl, id, userID, deletedAt, deviceID) ==
    IF GetNote(tbl, id, userID) = Nil
    THEN [notFound |-> TRUE, tbl |-> tbl]
    ELSE [notFound |-> FALSE,
          tbl |-> [tbl EXCEPT ![id] =
                     [@ EXCEPT !.deleted_at = <<deletedAt>>,
                               !.modified_at = deletedAt,
                               !.modified_by_device = deviceID]]]

\* the UPDATE statement of UpdateNote in its place: deleted_at is not written
UpsertNoteUpdate_mut(tbl, n) ==
    IF ~(n.id \in DOMAIN tbl /\ tbl[n.id].user_id = n.user_id)
    THEN [err |-> FALSE, tbl |-> tbl]
    ELSE IF ~NoteTypeOK(n.type)
    THEN [err |-> TRUE, tbl |-> tbl]
    ELSE [err |-> FALSE,
          tbl |-> [tbl EXCEPT ![n.id] =
                     [@ EXCEPT !.title = n.title, !.content = n.content,
                               !.type = n.type,
                               !.modified_at = toMillis(n.modified_at),
                               !.modified_by_device = n.modified_by_device]]]

\* the UPDATE statement of UpsertNote
UpsertNoteUpdate(tbl, n) ==
    IF ~(n.id \in DOMAIN tbl /\ tbl[n.id].user_id = n.user_id)
    THEN [err |-> FALSE, tbl |-> tbl]
    ELSE IF ~NoteTypeOK(n.type)
    THEN [err |-> TRUE, tbl |-> tbl]
    ELSE [err |-> FALSE,
          tbl |-> [tbl EXCEPT ![n.id] =
                     [@ EXCEPT !.title = n.title, !.content = n.content,
                               !.type = n.type,
                               !.modified_at = toMillis(n.modified_at),
                               !.modified_by_device = n.modified_by_device,
                               !.deleted_at = toNullMillis(n.deleted_at)]]]

\* UpsertNote without the LWW comparison: an existing row is always written
UpsertNote_mut(tbl, n) ==
    LET existing == GetNoteAny(tbl, n.id, n.user_id) IN
    IF existing = Nil
    THEN LET c == CreateNote(tbl, n) IN
         [server |-> Nil, err |-> c.err, tbl |-> c.tbl]
    ELSE LET u == UpsertNoteUpdate(tbl, n) IN
         [server |-> Nil, err |-> u.err, tbl |-> u.tbl]

\* UpsertNote: server is the returned *model.Note (Nil when nil), err the
\* returned error, tbl the table afterwards
UpsertNote(tbl, n) ==
    LET existing == GetNoteAny(tbl, n.id, n.user_id) IN
    IF existing = Nil
    THEN LET c == CreateNote(tbl, n) IN
         [server |-> Nil, err |-> c.err, tbl |-> c.tbl]
    ELSE IF After(n.modified_at, existing[1].modified_at)
    THEN LET u == UpsertNoteUpdate(tbl, n) IN
         [server |-> Nil, err |-> u.err, tbl |-> u.tbl]
    ELSE [server |-> existing, err |-> FALSE, tbl |-> tbl]

\* ------------------------------------------------------------ todos table
\* row -> model.Todo
scanTodo(row) ==
    [id |-> row.id, user_id |-> row.user_id, note_id |-> row.note_id,
     line_ref |-> row.line_ref, content |-> row.content,
     due_date |-> fromNullMillis(row.due_date), completed |-> row.completed,
     modified_at |-> fromMillis(row.modified_at),
     modified_by_device |-> row.modified_by_device,
     deleted_at |-> fromNullMillis(row.deleted_at),
     created_at |-> fromMillis(row.created_at)]

\* the row an INSERT of t writes
todoRow(t) ==
    [id |-> t.id, user_id |-> t.user_id, note_id |-> t.note_id,
     line_ref |-> t.line_ref, content |-> t.content,
     due_date |-> toNullMillis(t.due_date), completed |-> t.completed,
     modified_at |-> toMillis(t.modified_at),
     modified_by_device |-> t.modified_by_device,
     deleted_at |-> toNullMillis(t.deleted_at),
     created_at |-> toMillis(t.created_at)]

\* note_id TEXT REFERENCES notes(id), with PRAGMA foreign_keys=ON
TodoNoteRefOK(ntbl, noteID) == noteID = Nil \/ noteID[1] \in DOMAIN ntbl

\* INSERT INTO todos: fails on a taken primary key or a dangling note_id
CreateTodo(tbl, ntbl, t) ==
    IF t.id \in DOMAIN tbl \/ ~TodoNoteRefOK(ntbl, t.note_id)
    THEN [err |-> TRUE, tbl |-> tbl]
    ELSE [err |-> FALSE,
          tbl |-> [i \in DOMAIN tbl \cup {t.id} |->
                     IF i = t.id THEN todoRow(t) ELSE tbl[i]]]

\* rows "WHERE id = ? AND user_id = ? AND deleted_at IS NULL"
GetTodo(tbl, id, userID) ==
    IF id \in DOMAIN tbl /\ tbl[id].user_id = userID /\ tbl[id].deleted_at = Nil
    THEN <<scanTodo(tbl[id])>> ELSE Nil

\* rows "WHERE id = ? AND user_id = ?"
GetTodoAny(tbl, id, userID) ==
    IF id \in DOMAIN tbl /\ tbl[id].user_id = userID
    THEN <<scanTodo(tbl[id])>> ELSE Nil

\* UPDATE todos SET note_id, line_ref, content, due_date, completed,
\* modified_at, modified_by_device WHERE id AND user_id AND deleted_at IS NULL
UpdateTodo(tbl, ntbl, t) ==
    IF GetTodo(tbl, t.id, t.user_id) = Nil
    THEN [err |-> FALSE, notFound |-> TRUE, tbl |-> tbl]
    ELSE IF ~TodoNoteRefOK(ntbl, t.note_id)
    THEN [err |-> TRUE, notFound |-> FALSE, tbl |-> tbl]
    ELSE [err |-> FALSE, notFound |-> FALSE,
          tbl |-> [tbl EXCEPT ![t.id] =
                     [@ EXCEPT !.note_id = t.note_id, !.line_ref = t.line_ref,
                               !.content = t.content,
                               !.due_date = toNullMillis(t.due_date),
                               !.completed = t.completed,
                               !.modified_at = toMillis(t.modified_at),
                               !.modified_by_device = t.modified_by_device]]]

\* the UPDATE statement without "deleted_at = ?" in its SET list
DeleteTodo_mut(tbl, id, userID, deletedAt, deviceID) ==
    IF GetTodo(tbl, id, userID) = Nil
    THEN [notFound |-> TRUE, tbl |-> tbl]
    ELSE [notFound |-> FALSE,
          tbl |-> [tbl EXCEPT ![id] =
                     [@ EXCEPT !.modified_at = deletedAt,
                               !.modified_by_device = deviceID]]]

\* UPDATE todos SET deleted_at, modified_at, modified_by_device
\* WHERE id AND user_id AND deleted_at IS NULL
DeleteTodo(tbl, id, userID, deletedAt, deviceID) ==
    IF GetTodo(tbl, id, userID) = Nil
    THEN [notFound |-> TRUE, tbl |-> tbl]
    ELSE [notFound |-> FALSE,
          tbl |-> [tbl EXCEPT ![id] =
                     [@ EXCEPT !.deleted_at = <<deletedAt>>,
                               !.modified_at = deletedAt,
                               !.modified_by_device = deviceID]]]

\* an UPDATE that leaves the column modified_at out
UpsertTodoUpdate_mut(tbl, ntbl, t) ==
    IF ~(t.id \in DOMAIN tbl /\ tbl[t.id].user_id = t.user_id)
    THEN [err |-> FALSE, tbl |-> tbl]
    ELSE IF ~TodoNoteRefOK(ntbl, t.note_id)
    THEN [err |-> TRUE, tbl |-> tbl]
    ELSE [err |-> FALSE,
          tbl |-> [tbl EXCEPT ![t.id] =
                     [@ EXCEPT !.note_id = t.note_id, !.line_ref = t.line_ref,
                               !.content = t.content,
                               !.due_date = toNullMillis(t.due_date),
                               !.completed = t.completed,
                               !.modified_by_device = t.modified_by_device,
                               !.deleted_at = toNullMillis(t.deleted_at)]]]

\* the UPDATE statement of UpsertTodo
UpsertTodoUpdate(tbl, ntbl, t) ==
    IF ~(t.id \in DOMAIN tbl /\ tbl[t.id].user_id = t.user_id)
    THEN [err |-> FALSE, tbl |-> tbl]
    ELSE IF ~TodoNoteRefOK(ntbl, t.note_id)
    THEN [err |-> TRUE, tbl |-> tbl]
    ELSE [err |-> FALSE,
          tbl |-> [tbl EXCEPT ![t.id] =
                     [@ EXCEPT !.note_id = t.note_id, !.line_ref = t.line_ref,
                               !.content = t.content,
                               !.due_date = toNullMillis(t.due_date),
                               !.completed = t.completed,
                               !.modified_at = toMillis(t.modified_at),
                               !.modified_by_device = t.modified_by_device,
                               !.deleted_at = toNullMillis(t.deleted_at)]]]

\* UpsertTodo, as UpsertNote
UpsertTodo(tbl, ntbl, t) ==
    LET existing == GetTodoAny(tbl, t.id, t.user_id) IN
    IF existing = Nil
    THEN LET c == CreateTodo(tbl, ntbl, t) IN
         [server |-> Nil, err |-> c.err, tbl |-> c.tbl]
    ELSE IF After(t.modified_at, existing[1].modified_at)
    THEN LET u == UpsertTodoUpdate(tbl, ntbl, t) IN
         [server |-> Nil, err |-> u.err, tbl |-> u.tbl]
    ELSE [server |-> existing, err |-> FALSE, tbl |-> tbl]

\* ---------------------------------------------------------- changes since
\* the sequences over S that hold each element once
Orderings(S) ==
    { q \in [1 .. Cardinality(S) -> S] :
        \A i, j \in 1 .. Cardinality(S) : i # j => q[i] # q[j] }

\* "ORDER BY modified_at ASC": rows with the same modified_at come in any
\* order
SortedByModifiedAt(tbl, ids) ==
    { q \in Orderings(ids) :
        \A i, j \in 1 .. Len(q) :
            i < j => tbl[q[i]].modified_at <= tbl[q[j]].modified_at }

\* the WHERE clause of the list query in its place: tombstones are left out
ChangedIds_mut(tbl, userID, sinceMs) ==
    { i \in DOMAIN tbl :
        /\ tbl[i].user_id = userID /\ tbl[i].modified_at > sinceMs
        /\ tbl[i].deleted_at = Nil }

\* the ids GetNoteChangesSince selects:
\* "WHERE user_id = ? AND modified_at > ?"
ChangedIds(tbl, userID, sinceMs) ==
    { i \in DOMAIN tbl : tbl[i].user_id = userID /\ tbl[i].modified_at > sinceMs }

\* the results GetNoteChangesSince can return
GetNoteChangesSince(tbl, userID, sinceMs) ==
    { [k \in 1 .. Len(q) |-> scanNote(tbl[q[k]])] :
        q \in SortedByModifiedAt(tbl, ChangedIds(tbl, userID, sinceMs)) }

\* the results GetTodoChangesSince can return
GetTodoChangesSince(tbl, userID, sinceMs) ==
    { [k \in 1 .. Len(q) |-> scanTodo(tbl[q[k]])] :
        q \in SortedByModifiedAt(tbl, ChangedIds(tbl, userID, sinceMs)) }

\* ------------------------------------------------------- request handlers
\* Requests are served one at a time in Spec: a handler runs as one action,
\* except handleSyncPush, which takes two steps per record of the batch: the
\* loop reaches the record and forces its user_id, then it calls the upsert.
\* The records of the batch are drawn as the loop reaches them.

IdlePush ==
    [pc |-> "idle", user |-> "", accepted |-> 0, conflicts |-> << >>, n |-> 0,
     cur |-> Nil, last |-> "", sync_timestamp |-> 0]

IdlePull ==
    [pc |-> "idle", user |-> "", since |-> 0, notes |-> << >>, todos |-> << >>,
     sync_timestamp |-> 0]

\* no request is being served
Idle == push.pc \notin {"notes", "note", "todos", "todo"}

\* the response of a handler that is not a sync handler
Respond(status) ==
    /\ resp' = status
    /\ push' = IdlePush
    /\ pull' = IdlePull

\* the server clock advances
Tick ==
    /\ Idle
    /\ now < MaxClock
    /\ now' = now + 1
    /\ UNCHANGED <<notes, todos, resp, push, pull>>

\* POST /notes
handleCreateNote(userID, req, newID) ==
    /\ Idle
    /\ UNCHANGED <<todos, now>>
    /\ IF \/ req.device_id = ""
          \/ RuneCountInString(req.title) > maxTitleLen
          \/ RuneCountInString(req.content) > maxContentLen
       THEN Respond(400) /\ UNCHANGED notes
       ELSE LET noteType == IF req.type = "" THEN "note" ELSE req.type IN
            IF noteType # "note" /\ noteType # "todo_list"
            THEN Respond(400) /\ UNCHANGED notes
            ELSE LET note == [id |-> newID, user_id |-> userID,
                                title |-> req.title, content |-> req.content,
                                type |-> noteType, modified_at |-> NowMillis,
                                modified_by_device |-> req.device_id,
                                deleted_at |-> Nil, created_at |-> NowMillis]
                     c == CreateNote(notes, note)
                 IN /\ notes' = c.tbl
                    /\ Respond(IF c.err THEN 500 ELSE 201)

\* PUT /notes/{id}
handleUpdateNote(userID, id, req) ==
    /\ Idle
    /\ UNCHANGED <<todos, now>>
    /\ IF \/ req.device_id = ""
          \/ (req.title # Nil /\ RuneCountInString(req.title[1]) > maxTitleLen)
          \/ (req.content # Nil /\ RuneCountInString(req.content[1]) > maxContentLen)
       THEN Respond(400) /\ UNCHANGED notes
       ELSE LET got == GetNote(notes, id, userID) IN
            IF got = Nil
            THEN Respond(404) /\ UNCHANGED notes
            ELSE IF req.type # Nil /\ req.type[1] # "note" /\ req.type[1] # "todo_list"
            THEN Respond(400) /\ UNCHANGED notes
            ELSE LET note == [got[1] EXCEPT
                                !.title = IF req.title # Nil THEN req.title[1] ELSE @,
                                !.content = IF req.content # Nil THEN req.content[1] ELSE @,
                                !.type = IF req.type # Nil THEN req.type[1] ELSE @,
                                !.modified_at = NowMillis,
                                !.modified_by_device = req.device_id]
                     u == UpdateNote(notes, note)
                 IN /\ notes' = u.tbl
                    /\ Respond(IF u.err \/ u.notFound THEN 500 ELSE 200)

\* DELETE /notes/{id}
handleDeleteNote(userID, id, deviceID) ==
    /\ Idle
    /\ UNCHANGED <<todos, now>>
    /\ LET d == DeleteNote(notes, id, userID, toMillis(NowMillis), deviceID) IN
       /\ notes' = d.tbl
       /\ Respond(IF d.notFound THEN 404 ELSE 204)

\* POST /todos
handleCreateTodo(userID, req, newID) ==
    /\ Idle
    /\ UNCHANGED <<notes, now>>
    /\ IF \/ req.device_id = ""
          \/ RuneCountInString(req.content) > maxTodoContentLen
       THEN Respond(400) /\ UNCHANGED todos
       ELSE LET todo == [id |-> newID, user_id |-> userID,
                           note_id |-> req.note_id, line_ref |-> req.line_ref,
                           content |-> req.content, due_date |-> req.due_date,
                           completed |-> FALSE, modified_at |-> NowMillis,
                           modified_by_device |-> req.device_id,
                           deleted_at |-> Nil, created_at |-> NowMillis]
                c == CreateTodo(todos, notes, todo)
            IN /\ todos' = c.tbl
               /\ Respond(IF c.err THEN 500 ELSE 201)

\* PUT /todos/{id}
handleUpdateTodo(userID, id, req) ==
    /\ Idle
    /\ UNCHANGED <<notes, now>>
    /\ IF \/ req.device_id = ""
          \/ (req.content # Nil /\ RuneCountInString(req.content[1]) > maxTodoContentLen)
       THEN Respond(400) /\ UNCHANGED todos
       ELSE LET got == GetTodo(todos, id, userID) IN
            IF got = Nil
            THEN Respond(404) /\ UNCHANGED todos
            ELSE LET todo == [got[1] EXCEPT
                                !.content = IF req.content # Nil THEN req.content[1] ELSE @,
                                !.due_date = IF req.due_date # Nil THEN req.due_date ELSE @,
                                !.completed = IF req.completed # Nil THEN req.completed[1] ELSE @,
                                !.note_id = IF req.note_id # Nil THEN req.note_id ELSE @,
                                !.line_ref = IF req.line_ref # Nil THEN req.line_ref ELSE @,
                                !.modified_at = NowMillis,
                                !.modified_by_device = req.device_id]
                     u == UpdateTodo(todos, notes, todo)
                 IN /\ todos' = u.tbl
                    /\ Respond(IF u.err \/ u.notFound THEN 500 ELSE 200)

\* DELETE /todos/{id}
handleDeleteTodo(userID, id, deviceID) ==
    /\ Idle
    /\ UNCHANGED <<notes, now>>
    /\ LET d == DeleteTodo(todos, id, userID, toMillis(NowMillis), deviceID) IN
       /\ todos' = d.tbl
       /\ Respond(IF d.notFound THEN 404 ELSE 204)

\* GET /sync/changes?since=
handleSyncChanges(userID, sinceMs) ==
    /\ Idle
    /\ \E ns \in GetNoteChangesSince(notes, userID, sinceMs) :
       \E ts \in GetTodoChangesSince(todos, userID, sinceMs) :
          pull' = [pc |-> "done", user |-> userID, since |-> sinceMs,
                   notes |-> ns, todos |-> ts,
                   sync_timestamp |-> toMillis(NowMillis)]
    /\ resp' = 200
    /\ push' = IdlePush
    /\ UNCHANGED <<notes, todos, now>>

\* POST /sync/push: the request is decoded
handleSyncPushBegin(userID) ==
    /\ Idle
    /\ push' = [IdlePush EXCEPT !.pc = "notes", !.user = userID]
    /\ resp' = 0
    /\ pull' = IdlePull
    /\ UNCHANGED <<notes, todos, now>>

\* the entry of the conflicts list for a record that lost
NoteConflict(id, serverVersion) ==
    [type |-> "note", id |-> id, server_note |-> serverVersion, server_todo |-> Nil]

TodoConflict(id, serverVersion) ==
    [type |-> "todo", id |-> id, server_note |-> Nil, server_todo |-> serverVersion]

\* the internal-error response of handleSyncPush
PushFailed ==
    [IdlePush EXCEPT !.pc = "error", !.user = push.user, !.cur = push.cur,
                     !.last = "error"]

\* "for i := range req.Notes": req.Notes[i].UserID = userID
handleSyncPushNextNote(in) ==
    /\ push.pc = "notes"
    /\ push.n < MaxBatch
    /\ push' = [push EXCEPT !.pc = "note", !.n = @ + 1,
                            !.cur = <<[in EXCEPT !.user_id = push.user]>>]
    /\ UNCHANGED <<notes, todos, now, resp, pull>>

\* the rest of the loop body: UpsertNote and the verdict
handleSyncPushNote ==
    /\ push.pc = "note"
    /\ LET n == push.cur[1]
           r == UpsertNote(notes, n)
       IN /\ notes' = r.tbl
          /\ IF r.err
             THEN push' = PushFailed /\ resp' = 500
             ELSE /\ resp' = resp
                  /\ IF r.server # Nil
                     THEN push' = [push EXCEPT
                                     !.pc = "notes",
                                     !.conflicts = Append(@, NoteConflict(n.id, r.server)),
                                     !.last = "conflict"]
                     ELSE push' = [push EXCEPT !.pc = "notes", !.accepted = @ + 1,
                                                !.last = "accepted"]
    /\ UNCHANGED <<todos, now, pull>>

\* "for i := range req.Todos": req.Todos[i].UserID = userID
handleSyncPushNextTodo(in) ==
    /\ push.pc \in {"notes", "todos"}
    /\ push.n < MaxBatch
    /\ push' = [push EXCEPT !.pc = "todo", !.n = @ + 1,
                            !.cur = <<[in EXCEPT !.user_id = push.user]>>]
    /\ UNCHANGED <<notes, todos, now, resp, pull>>

\* the rest of the loop body: UpsertTodo and the verdict
handleSyncPushTodo ==
    /\ push.pc = "todo"
    /\ LET t == push.cur[1]
           r == UpsertTodo(todos, notes, t)
       IN /\ todos' = r.tbl
          /\ IF r.err
             THEN push' = PushFailed /\ resp' = 500
             ELSE /\ resp' = resp
                  /\ IF r.server # Nil
                     THEN push' = [push EXCEPT
                                     !.pc = "todos",
                                     !.conflicts = Append(@, TodoConflict(t.id, r.server)),
                                     !.last = "conflict"]
                     ELSE push' = [push EXCEPT !.pc = "todos", !.accepted = @ + 1,
                                                !.last = "accepted"]
    /\ UNCHANGED <<notes, now, pull>>

\* both loops are over: the response is written
handleSyncPushEnd ==
    /\ push.pc \in {"notes", "todos"}
    /\ push' = [push EXCEPT !.pc = "done", !.n = 0, !.cur = Nil, !.last = "",
                            !.sync_timestamp = toMillis(NowMillis)]
    /\ resp' = 200
    /\ UNCHANGED <<notes, todos, now, pull>>

\* ------------------------------------------------------------------ Spec
\* the values of the variables a specification does not use
InitAuth ==
    /\ refresh_tokens = << >>
    /\ sessions = << >>
    /\ handed = {}
    /\ spent = {}
    /\ stale = {}
    /\ before = << >>

InitFront ==
    /\ users = << >>
    /\ limiter = << >>

InitExt ==
    /\ replay = << >>
    /\ read = << >>
    /\ InitFront
    /\ InitAuth

InitAux ==
    /\ InitExt
    /\ maxAccepted = [i \in NoteIds \cup TodoIds |-> Nil]
    /\ workers = << >>
    /\ chain = << >>
    /\ writer = << >>
    /\ devices = << >>

\* the server after migrate(): empty tables
InitServer ==
    /\ notes = << >>
    /\ todos = << >>
    /\ now = 0
    /\ resp = 0
    /\ push = IdlePush
    /\ pull = IdlePull

Init == InitServer /\ InitAux

\* Spec explores the requests that write notes while the table todos is
\* empty, and the requests that write todos while the table notes is empty
\* or holds the note that POST /notes creates at time 0 (the note a todo's
\* note_id can refer to): the two tables meet only in that reference.
RefNote(id) ==
    [id |-> id, user_id |-> Owner, title |-> "T", content |-> "C",
     type |-> "note", modified_at |-> 0, modified_by_device |-> "d1",
     deleted_at |-> Nil, created_at |-> 0]

NotesTurn == DOMAIN todos = {}

TodosTurn == \A id \in DOMAIN notes : notes[id] = RefNote(id)

Next ==
    \/ Tick /\ UNCHANGED aux
    \/ \E req \in CreateNoteRequests, newID \in NoteIds \ DOMAIN notes :
         NotesTurn /\ handleCreateNote(Owner, req, newID) /\ UNCHANGED aux
    \/ \E id \in NoteIds, req \in UpdateNoteRequests :
         NotesTurn /\ handleUpdateNote(Owner, id, req) /\ UNCHANGED aux
    \/ \E id \in NoteIds, d \in TokenDevices :
         NotesTurn /\ handleDeleteNote(Owner, id, d) /\ UNCHANGED aux
    \/ \E req \in CreateTodoRequests, newID \in TodoIds \ DOMAIN todos :
         TodosTurn /\ handleCreateTodo(Owner, req, newID) /\ UNCHANGED aux
    \/ \E id \in TodoIds, req \in UpdateTodoRequests :
         TodosTurn /\ handleUpdateTodo(Owner, id, req) /\ UNCHANGED aux
    \/ \E id \in TodoIds, d \in TokenDevices :
         TodosTurn /\ handleDeleteTodo(Owner, id, d) /\ UNCHANGED aux
    \/ \E u \in Users : handleSyncPushBegin(u) /\ UNCHANGED aux
    \/ \E in \in PushNotes :
         /\ NotesTurn
         /\ push.user # Owner => OtherPushNote(in)
         /\ handleSyncPushNextNote(in)
         /\ UNCHANGED aux
    \/ handleSyncPushNote /\ UNCHANGED aux
    \/ \E in \in PushTodos :
         /\ TodosTurn
         /\ push.user # Owner => OtherPushTodo(in)
         /\ handleSyncPushNextTodo(in)
         /\ UNCHANGED aux
    \/ handleSyncPushTodo /\ UNCHANGED aux
    \/ handleSyncPushEnd /\ UNCHANGED aux

Spec == Init /\ [][Next]_vars

\* ------------------------------------------------------------- SpecPush
\* Sync pushes only, one after the other, with the history of the
\* timestamps that were counted as accepted.
Max(a, b) == IF a >= b THEN a ELSE b

\* the history after a step of the push loop over the record rec
Accept(rec) ==
    maxAccepted' =
       IF push'.last = "accepted"
       THEN [maxAccepted EXCEPT
               ![rec.id] = IF @ = Nil THEN <<rec.modified_at>>
                           ELSE <<Max(@[1], rec.modified_at)>>]
       ELSE maxAccepted

auxPush == <<workers, chain, writer, devices, ext>>

NextPush ==
    \/ \E u \in Users :
         handleSyncPushBegin(u) /\ UNCHANGED <<maxAccepted, auxPush>>
    \/ \E in \in PushNotes :
         /\ NotesTurn
         /\ push.user # Owner => OtherPushNote(in)
         /\ handleSyncPushNextNote(in)
         /\ UNCHANGED <<maxAccepted, auxPush>>
    \/ handleSyncPushNote /\ Accept(push.cur[1]) /\ UNCHANGED auxPush
    \/ \E in \in PushTodos :
         /\ TodosTurn
         /\ push.user # Owner => OtherPushTodo(in)
         /\ handleSyncPushNextTodo(in)
         /\ UNCHANGED <<maxAccepted, auxPush>>
    \/ handleSyncPushTodo /\ Accept(push.cur[1]) /\ UNCHANGED auxPush
    \/ handleSyncPushEnd /\ UNCHANGED <<maxAccepted, auxPush>>

SpecPush == Init /\ [][NextPush]_vars

\* ------------------------------------------------------------- SpecList
\* GET /sync/changes by either tenant over stores that both tenants fill
\* through POST and that Owner changes through DELETE and one-record pushes
\* whose modified_at is a whole millisecond up to MaxClock, ahead of the
\* server clock or not.  Two ids per table, one payload.
ListNoteIds == NoteIds \cup {"n2"}

ListTodoIds == TodoIds \cup {"t2"}

ListCreateNote ==
    [title |-> "T", content |-> "C", type |-> "note", device_id |-> "d1"]

ListCreateTodo ==
    [note_id |-> Nil, line_ref |-> Nil, content |-> "buy", due_date |-> Nil,
     device_id |-> "d1"]

ListPushNote(in) ==
    /\ in.title = "T" /\ in.type = "note" /\ in.user_id = Owner
    /\ in.modified_at = fromMillis(toMillis(in.modified_at))
    /\ in.deleted_at = Nil

ListPushTodo(in) ==
    /\ in.content = "buy" /\ in.user_id = Owner
    /\ in.modified_at = fromMillis(toMillis(in.modified_at))
    /\ in.deleted_at = Nil

NextList ==
    \/ Tick /\ UNCHANGED aux
    \/ \E u \in Users, newID \in ListNoteIds \ DOMAIN notes :
         NotesTurn /\ handleCreateNote(u, ListCreateNote, newID)
         /\ UNCHANGED aux
    \/ \E id \in ListNoteIds, d \in TokenDevices :
         NotesTurn /\ handleDeleteNote(Owner, id, d) /\ UNCHANGED aux
    \/ \E u \in Users, newID \in ListTodoIds \ DOMAIN todos :
         TodosTurn /\ handleCreateTodo(u, ListCreateTodo, newID)
         /\ UNCHANGED aux
    \/ \E id \in ListTodoIds, d \in TokenDevices :
         TodosTurn /\ handleDeleteTodo(Owner, id, d) /\ UNCHANGED aux
    \/ handleSyncPushBegin(Owner) /\ UNCHANGED aux
    \/ \E in \in PushNotes, id \in ListNoteIds :
         /\ NotesTurn /\ push.n = 0
         /\ ListPushNote(in)
         /\ handleSyncPushNextNote([in EXCEPT !.id = id])
         /\ UNCHANGED aux
    \/ handleSyncPushNote /\ UNCHANGED aux
    \/ \E in \in PushTodos, id \in ListTodoIds :
         /\ TodosTurn /\ push.n = 0
         /\ ListPushTodo(in)
         /\ handleSyncPushNextTodo([in EXCEPT !.id = id])
         /\ UNCHANGED aux
    \/ handleSyncPushTodo /\ UNCHANGED aux
    \/ handleSyncPushEnd /\ UNCHANGED aux
    \/ \E u \in Users, sinceMs \in Cursors :
         handleSyncChanges(u, sinceMs) /\ UNCHANGED aux

SpecList == Init /\ [][NextList]_vars

\* ------------------------------------------------------------- SpecRace
\* Two request workers inside UpsertNote (or both inside UpsertTodo) for
\* the same id and user.  UpsertNote is not a transaction: its SELECT
\* (GetNoteAny) and its INSERT or UPDATE are two statements, and the
\* statements of the two workers interleave.  Worker 1 carries the version
\* with the smaller modified_at, worker 2 the one with the greater; the
\* row, if stored, is older than both (RaceNote(0, t), RaceTodo(0, t)).
RaceWorkers == {1, 2}

RaceNote(w, t) ==
    [id |-> "n1", user_id |-> Owner,
     title |-> IF w = 0 THEN "Stored" ELSE IF w = 1 THEN "T" ELSE "Client",
     content |-> "C",
     type |-> "note", modified_at |-> t, modified_by_device |-> "d1",
     deleted_at |-> Nil, created_at |-> t]

RaceTodo(w, t) ==
    [id |-> "t1", user_id |-> Owner, note_id |-> Nil, line_ref |-> Nil,
     content |-> IF w = 0 THEN "stored" ELSE IF w = 1 THEN "buy" ELSE "call",
     due_date |-> Nil,
     completed |-> FALSE, modified_at |-> t, modified_by_device |-> "d1",
     deleted_at |-> Nil, created_at |-> t]

\* a worker at the entry of UpsertNote / UpsertTodo
RaceWorker(kind, n) ==
    [pc |-> "read", kind |-> kind, n |-> n, existing |-> Nil,
     server |-> Nil, err |-> FALSE]

InitRace ==
    /\ InitExt
    /\ now = 0 /\ resp = 0 /\ push = IdlePush /\ pull = IdlePull
    /\ maxAccepted = [i \in NoteIds \cup TodoIds |-> Nil]
    /\ chain = << >> /\ writer = << >> /\ devices = << >>
    /\ \E kind \in {"note", "todo"}, t1, t2 \in ClientTimes,
          s \in {-1} \cup (0 .. MaxClock) :
         /\ t1 < t2
         /\ fromMillis(s) < t1
         /\ notes = IF kind = "note" /\ s >= 0
                    THEN [i \in {"n1"} |-> noteRow(RaceNote(0, fromMillis(s)))]
                    ELSE << >>
         /\ todos = IF kind = "todo" /\ s >= 0
                    THEN [i \in {"t1"} |-> todoRow(RaceTodo(0, fromMillis(s)))]
                    ELSE << >>
         /\ workers = [w \in RaceWorkers |->
                         RaceWorker(kind,
                                    IF kind = "note"
                                    THEN RaceNote(w, IF w = 1 THEN t1 ELSE t2)
                                    ELSE RaceTodo(w, IF w = 1 THEN t1 ELSE t2))]

auxRace == <<now, resp, push, pull, maxAccepted, chain, writer, devices, ext>>

\* UpsertNote, first statement: existing, err := db.GetNoteAny(n.ID, n.UserID)
UpsertNoteRead(w) ==
    /\ workers[w].pc = "read" /\ workers[w].kind = "note"
    /\ workers' = [workers EXCEPT
                     ![w].pc = "write",
                     ![w].existing = GetNoteAny(notes, workers[w].n.id,
                                                workers[w].n.user_id)]
    /\ UNCHANGED <<notes, todos, auxRace>>

\* UpsertNote, the rest: CreateNote, the UPDATE, or the conflict
UpsertNoteWrite(w) ==
    /\ workers[w].pc = "write" /\ workers[w].kind = "note"
    /\ LET n == workers[w].n
           existing == workers[w].existing
       IN IF existing = Nil
          THEN LET c == CreateNote(notes, n) IN
               /\ notes' = c.tbl
               /\ workers' = [workers EXCEPT ![w].pc = "done", ![w].err = c.err]
          ELSE IF After(n.modified_at, existing[1].modified_at)
          THEN LET u == UpsertNoteUpdate(notes, n) IN
               /\ notes' = u.tbl
               /\ workers' = [workers EXCEPT ![w].pc = "done", ![w].err = u.err]
          ELSE /\ notes' = notes
               /\ workers' = [workers EXCEPT ![w].pc = "done",
                                             ![w].server = existing]
    /\ UNCHANGED <<todos, auxRace>>

\* UpsertTodo, first statement: existing, err := db.GetTodoAny(t.ID, t.UserID)
UpsertTodoRead(w) ==
    /\ workers[w].pc = "read" /\ workers[w].kind = "todo"
    /\ workers' = [workers EXCEPT
                     ![w].pc = "write",
                     ![w].existing = GetTodoAny(todos, workers[w].n.id,
                                                workers[w].n.user_id)]
    /\ UNCHANGED <<notes, todos, auxRace>>

\* UpsertTodo, the rest
UpsertTodoWrite(w) ==
    /\ workers[w].pc = "write" /\ workers[w].kind = "todo"
    /\ LET t == workers[w].n
           existing == workers[w].existing
       IN IF existing = Nil
          THEN LET c == CreateTodo(todos, notes, t) IN
               /\ todos' = c.tbl
               /\ workers' = [workers EXCEPT ![w].pc = "done", ![w].err = c.err]
          ELSE IF After(t.modified_at, existing[1].modified_at)
          THEN LET u == UpsertTodoUpdate(todos, notes, t) IN
               /\ todos' = u.tbl
               /\ workers' = [workers EXCEPT ![w].pc = "done", ![w].err = u.err]
          ELSE /\ todos' = todos
               /\ workers' = [workers EXCEPT ![w].pc = "done",
                                             ![w].server = existing]
    /\ UNCHANGED <<notes, auxRace>>

NextRace ==
    \/ \E w \in RaceWorkers : UpsertNoteRead(w)
    \/ \E w \in RaceWorkers : UpsertNoteWrite(w)
    \/ \E w \in RaceWorkers : UpsertTodoRead(w)
    \/ \E w \in RaceWorkers : UpsertTodoWrite(w)

SpecRace == InitRace /\ [][NextRace]_vars

\* ------------------------------------------------------------- SpecPull
\* A client of Owner pulls in a chain, each pull with the sync_timestamp of
\* the previous one as since, while another request worker serves REST
\* writes of Owner.  handleSyncChanges takes three steps (notes query,
\* todos query, clock reading); a REST write takes two (the handler reads
\* the clock, then the database statement runs).  The clock advances
\* between any two steps.
IdleChain ==
    [pc |-> "idle", since |-> -1, notes |-> << >>, todos |-> << >>,
     seen |-> {}]

IdleWriter == [pc |-> "idle", op |-> "", at |-> 0, note |-> Nil]

InitPull ==
    /\ InitServer
    /\ InitExt
    /\ maxAccepted = [i \in NoteIds \cup TodoIds |-> Nil]
    /\ workers = << >> /\ devices = << >>
    /\ chain = IdleChain
    /\ writer = IdleWriter

auxPull == <<maxAccepted, workers, devices, ext>>

\* handleSyncChanges: notes, err := a.db.GetNoteChangesSince(userID, sinceMs)
handleSyncChangesNotes ==
    /\ chain.pc = "idle"
    /\ \E ns \in GetNoteChangesSince(notes, Owner, chain.since) :
         chain' = [chain EXCEPT !.pc = "todos", !.notes = ns]
    /\ UNCHANGED <<server, writer, auxPull>>

\* handleSyncChanges: todos, err := a.db.GetTodoChangesSince(userID, sinceMs)
handleSyncChangesTodos ==
    /\ chain.pc = "todos"
    /\ \E ts \in GetTodoChangesSince(todos, Owner, chain.since) :
         chain' = [chain EXCEPT !.pc = "clock", !.todos = ts]
    /\ UNCHANGED <<server, writer, auxPull>>

\* handleSyncChanges: SyncTimestamp: model.NowMillis().UnixMilli(); the
\* client keeps the records and takes the timestamp as its next since
handleSyncChangesClock ==
    /\ chain.pc = "clock"
    /\ chain' = [pc |-> "idle", since |-> toMillis(NowMillis),
                 notes |-> << >>, todos |-> << >>,
                 seen |-> chain.seen
                            \cup { chain.notes[k] : k \in 1 .. Len(chain.notes) }
                            \cup { chain.todos[k] : k \in 1 .. Len(chain.todos) }]
    /\ UNCHANGED <<server, writer, auxPull>>

\* handleCreateNote up to "now := model.NowMillis()" and the note built
\* from it
handleCreateNoteStamp(newID) ==
    /\ writer.pc = "idle"
    /\ writer' = [pc |-> "stamped", op |-> "create_note", at |-> now,
                  note |-> <<[id |-> newID, user_id |-> Owner, title |-> "T",
                              content |-> "C", type |-> "note",
                              modified_at |-> NowMillis,
                              modified_by_device |-> "d1", deleted_at |-> Nil,
                              created_at |-> NowMillis]>>]
    /\ UNCHANGED <<server, chain, auxPull>>

\* handleUpdateNote up to "note.ModifiedAt = model.NowMillis()": the note
\* was read with GetNote
handleUpdateNoteStamp(id) ==
    /\ writer.pc = "idle"
    /\ GetNote(notes, id, Owner) # Nil
    /\ writer' = [pc |-> "stamped", op |-> "update_note", at |-> now,
                  note |-> <<[GetNote(notes, id, Owner)[1] EXCEPT
                                !.title = "Client",
                                !.modified_at = NowMillis,
                                !.modified_by_device = "phone"]>>]
    /\ UNCHANGED <<server, chain, auxPull>>

\* handleDeleteNote up to "now := model.NowMillis().UnixMilli()"
handleDeleteNoteStamp(id) ==
    /\ writer.pc = "idle"
    /\ writer' = [pc |-> "stamped", op |-> "delete_note", at |-> now,
                  note |-> <<[id |-> id]>>]
    /\ UNCHANGED <<server, chain, auxPull>>

\* handleCreateTodo up to "now := model.NowMillis()"
handleCreateTodoStamp(newID) ==
    /\ writer.pc = "idle"
    /\ writer' = [pc |-> "stamped", op |-> "create_todo", at |-> now,
                  note |-> <<[id |-> newID, user_id |-> Owner, note_id |-> Nil,
                              line_ref |-> Nil, content |-> "buy",
                              due_date |-> Nil, completed |-> FALSE,
                              modified_at |-> NowMillis,
                              modified_by_device |-> "d1", deleted_at |-> Nil,
                              created_at |-> NowMillis]>>]
    /\ UNCHANGED <<server, chain, auxPull>>

\* the database statement of the REST write in progress
handleWriteStore ==
    /\ writer.pc = "stamped"
    /\ writer' = IdleWriter
    /\ IF writer.op = "create_note"
       THEN notes' = CreateNote(notes, writer.note[1]).tbl /\ todos' = todos
       ELSE IF writer.op = "update_note"
       THEN notes' = UpdateNote(notes, writer.note[1]).tbl /\ todos' = todos
       ELSE IF writer.op = "delete_note"
       THEN /\ notes' = DeleteNote(notes, writer.note[1].id, Owner,
                                   writer.at, "d1").tbl
            /\ todos' = todos
       ELSE todos' = CreateTodo(todos, notes, writer.note[1]).tbl /\ notes' = notes
    /\ UNCHANGED <<now, resp, push, pull, chain, auxPull>>

NextPull ==
    \/ Tick /\ UNCHANGED aux
    \/ handleSyncChangesNotes
    \/ handleSyncChangesTodos
    \/ handleSyncChangesClock
    \/ \E newID \in NoteIds \ DOMAIN notes : handleCreateNoteStamp(newID)
    \/ \E id \in NoteIds : handleUpdateNoteStamp(id)
    \/ \E id \in NoteIds : handleDeleteNoteStamp(id)
    \/ \E newID \in TodoIds \ DOMAIN todos : handleCreateTodoStamp(newID)
    \/ handleWriteStore

SpecPull == InitPull /\ [][NextPull]_vars

\* ------------------------------------------------------------- SpecConv
\* The web clients of Owner (web/src/lib/sync.js, db.js).  Each device
\* keeps a local store and the cursor last_sync, and runs doSync again and
\* again (setInterval in startSync): pull with since = last_sync, apply the
\* delta, push the local records modified after last_sync, store the
\* pull's sync_timestamp.  A device edits a note in its local store at most
\* MaxEdits times, stamping it with the time of the edit; the clocks of the
\* devices and of the server agree.  A device that is offline takes no
\* step.
ConvDevices == {"web-a", "web-b"}

IdleDevice ==
    [pc |-> "idle", last_sync |-> 0, notes |-> << >>, todos |-> << >>,
     changes |-> [notes |-> << >>, todos |-> << >>, sync_timestamp |-> 0],
     edits |-> 0]

\* the clock is past the epoch: 0 is what getLastSync returns before the
\* first sync
InitConv ==
    /\ InitExt
    /\ notes = << >> /\ todos = << >>
    /\ now = 1
    /\ resp = 0 /\ push = IdlePush /\ pull = IdlePull
    /\ maxAccepted = [i \in NoteIds \cup TodoIds |-> Nil]
    /\ workers = << >> /\ chain = << >> /\ writer = << >>
    /\ devices = [d \in ConvDevices |-> IdleDevice]

auxConv == <<maxAccepted, workers, chain, writer, ext>>

\* db.js applyServerChanges, one list: the server version is put unless
\* the local one is newer
RECURSIVE applyServerChanges(_, _)
applyServerChanges(store, list) ==
    IF list = << >>
    THEN store
    ELSE LET rec == Head(list)
             put == \/ rec.id \notin DOMAIN store
                    \/ toMillis(rec.modified_at)
                         >= toMillis(store[rec.id].modified_at)
         IN applyServerChanges(
               IF put
               THEN [i \in DOMAIN store \cup {rec.id} |->
                       IF i = rec.id THEN rec ELSE store[i]]
               ELSE store,
               Tail(list))

\* db.js getLocalChanges, one store: the records modified after sinceMs,
\* in the order of their keys
getLocalChanges(store, sinceMs) ==
    LET ids == { i \in DOMAIN store : toMillis(store[i].modified_at) > sinceMs }
        q == CHOOSE o \in Orderings(ids) : TRUE
    IN [k \in 1 .. Len(q) |-> store[q[k]]]

\* the loops of handleSyncPush over a whole request: err is set when an
\* upsert fails (the handler answers 500 and stops)
RECURSIVE UpsertNotes(_, _, _)
UpsertNotes(tbl, userID, list) ==
    IF list = << >>
    THEN [err |-> FALSE, tbl |-> tbl]
    ELSE LET r == UpsertNote(tbl, [Head(list) EXCEPT !.user_id = userID])
         IN IF r.err THEN [err |-> TRUE, tbl |-> r.tbl]
            ELSE UpsertNotes(r.tbl, userID, Tail(list))

RECURSIVE UpsertTodos(_, _, _, _)
UpsertTodos(tbl, ntbl, userID, list) ==
    IF list = << >>
    THEN [err |-> FALSE, tbl |-> tbl]
    ELSE LET r == UpsertTodo(tbl, ntbl, [Head(list) EXCEPT !.user_id = userID])
         IN IF r.err THEN [err |-> TRUE, tbl |-> r.tbl]
            ELSE UpsertTodos(r.tbl, ntbl, userID, Tail(list))

\* db.js localPutNote: the device writes a version of note id, stamped with
\* the time of the edit, into its local store
localPutNote(d, id) ==
    /\ devices[d].edits < MaxEdits
    /\ LET note == [id |-> id, user_id |-> Owner, title |-> d,
                    content |-> "C", type |-> "note",
                    modified_at |-> NowMillis, modified_by_device |-> d,
                    deleted_at |-> Nil, created_at |-> NowMillis]
       IN devices' = [devices EXCEPT
                        ![d].edits = @ + 1,
                        ![d].notes = [i \in DOMAIN @ \cup {id} |->
                                        IF i = id THEN note ELSE @[i]]]
    /\ UNCHANGED <<server, auxConv>>

\* doSync: lastSync = getLastSync(); changes = syncChanges(lastSync)
doSyncPull(d) ==
    /\ devices[d].pc = "idle"
    /\ handleSyncChanges(Owner, devices[d].last_sync)
    /\ devices' = [devices EXCEPT
                     ![d].pc = "pulled",
                     ![d].changes = [notes |-> pull'.notes,
                                     todos |-> pull'.todos,
                                     sync_timestamp |-> pull'.sync_timestamp]]
    /\ UNCHANGED auxConv

\* doSync: applyServerChanges(changes.notes, changes.todos)
doSyncApply(d) ==
    /\ devices[d].pc = "pulled"
    /\ devices' = [devices EXCEPT
                     ![d].pc = "applied",
                     ![d].notes = applyServerChanges(@, devices[d].changes.notes),
                     ![d].todos = applyServerChanges(@, devices[d].changes.todos)]
    /\ UNCHANGED <<server, auxConv>>

\* doSync: local = getLocalChanges(lastSync); syncPush(...) if there is
\* something to push; setLastSync(changes.sync_timestamp) unless the push
\* failed
doSyncPush(d) ==
    /\ devices[d].pc = "applied"
    /\ LET localNotes == getLocalChanges(devices[d].notes, devices[d].last_sync)
           localTodos == getLocalChanges(devices[d].todos, devices[d].last_sync)
           n == UpsertNotes(notes, Owner, localNotes)
           t == UpsertTodos(todos, n.tbl, Owner, localTodos)
       IN IF localNotes = << >> /\ localTodos = << >>
          THEN /\ UNCHANGED <<notes, todos, resp>>
               /\ devices' = [devices EXCEPT
                                ![d].pc = "idle",
                                ![d].last_sync = devices[d].changes.sync_timestamp]
          ELSE /\ notes' = n.tbl
               /\ todos' = IF n.err THEN todos ELSE t.tbl
               /\ resp' = IF n.err \/ t.err THEN 500 ELSE 200
               /\ devices' = [devices EXCEPT
                                ![d].pc = "idle",
                                ![d].last_sync =
                                   IF n.err \/ t.err THEN @
                                   ELSE devices[d].changes.sync_timestamp]
    /\ UNCHANGED <<now, push, pull, auxConv>>

\* the clock advances, up to one millisecond past MaxClock
ConvTick ==
    /\ now < MaxClock + 1
    /\ now' = now + 1
    /\ UNCHANGED <<notes, todos, resp, push, pull, aux>>

NextConv ==
    \/ ConvTick
    \/ \E d \in ConvDevices, id \in NoteIds : localPutNote(d, id)
    \/ \E d \in ConvDevices : doSyncPull(d)
    \/ \E d \in ConvDevices : doSyncApply(d)
    \/ \E d \in ConvDevices : doSyncPush(d)

\* a device that is online runs the steps of doSync
doSync(d) == doSyncPull(d) \/ doSyncApply(d) \/ doSyncPush(d)

\* every device keeps syncing
SpecConv ==
    /\ InitConv /\ [][NextConv]_vars
    /\ \A d \in ConvDevices : WF_vars(doSync(d))

\* ----------------------------------------------------------- SpecReplay
\* A client sends a push request and then the identical request again,
\* with no other write in between.  handleSyncPush is taken as a whole:
\* SyncPush gives the response and the tables after the request.
SeqsUpTo(S, n) == UNION { [1 .. k -> S] : k \in 0 .. n }

\* an upsert whose statement the database fails ("if err != nil"): nothing
\* is written
StoreError(tbl) == [server |-> Nil, err |-> TRUE, tbl |-> tbl]

\* the first loop of handleSyncPush from the record at the head of list on;
\* r holds the tables, the counter and the conflicts list so far, the
\* number k of upserts that returned and the upsert at which the database
\* fails (fail, 0 when it does not)
\* the first loop going on to the next record after an upsert failed
RECURSIVE SyncPushNotes_mut(_, _, _)
SyncPushNotes_mut(r, userID, list) ==
    IF list = << >> \/ r.err
    THEN r
    ELSE LET n == [Head(list) EXCEPT !.user_id = userID]
             u == IF r.k + 1 = r.fail THEN StoreError(r.notes)
                  ELSE UpsertNote(r.notes, n)
         IN SyncPushNotes_mut(
               IF u.err THEN [r EXCEPT !.k = @ + 1]
               ELSE IF u.server # Nil
               THEN [r EXCEPT !.k = @ + 1,
                              !.conflicts = Append(@, NoteConflict(n.id, u.server))]
               ELSE [r EXCEPT !.k = @ + 1, !.notes = u.tbl, !.accepted = @ + 1],
               userID, Tail(list))

RECURSIVE SyncPushNotes(_, _, _)
SyncPushNotes(r, userID, list) ==
    IF list = << >> \/ r.err
    THEN r
    ELSE LET n == [Head(list) EXCEPT !.user_id = userID]
             u == IF r.k + 1 = r.fail THEN StoreError(r.notes)
                  ELSE UpsertNote(r.notes, n)
         IN SyncPushNotes(
               IF u.err THEN [r EXCEPT !.err = TRUE]
               ELSE IF u.server # Nil
               THEN [r EXCEPT !.k = @ + 1,
                              !.conflicts = Append(@, NoteConflict(n.id, u.server))]
               ELSE [r EXCEPT !.k = @ + 1, !.notes = u.tbl, !.accepted = @ + 1],
               userID, Tail(list))

\* the second loop of handleSyncPush
RECURSIVE SyncPushTodos(_, _, _)
SyncPushTodos(r, userID, list) ==
    IF list = << >> \/ r.err
    THEN r
    ELSE LET t == [Head(list) EXCEPT !.user_id = userID]
             u == IF r.k + 1 = r.fail THEN StoreError(r.todos)
                  ELSE UpsertTodo(r.todos, r.notes, t)
         IN SyncPushTodos(
               IF u.err THEN [r EXCEPT !.err = TRUE]
               ELSE IF u.server # Nil
               THEN [r EXCEPT !.k = @ + 1,
                              !.conflicts = Append(@, TodoConflict(t.id, u.server))]
               ELSE [r EXCEPT !.k = @ + 1, !.todos = u.tbl, !.accepted = @ + 1],
               userID, Tail(list))

\* handleSyncPush over the tables ntbl and ttbl: the tables afterwards and
\* the response (status 500 when an upsert failed)
SyncPushFailing(ntbl, ttbl, userID, req, fail) ==
    LET r0 == [notes |-> ntbl, todos |-> ttbl, err |-> FALSE, accepted |-> 0,
               conflicts |-> << >>, k |-> 0, fail |-> fail]
        r == SyncPushTodos(SyncPushNotes(r0, userID, req.notes), userID, req.todos)
    IN [notes |-> r.notes, todos |-> r.todos,
        response |-> IF r.err
                     THEN [status |-> 500, accepted |-> 0, conflicts |-> << >>,
                           sync_timestamp |-> 0]
                     ELSE [status |-> 200, accepted |-> r.accepted,
                           conflicts |-> r.conflicts,
                           sync_timestamp |-> toMillis(NowMillis)]]

\* handleSyncPush over a database that answers every statement
SyncPush(ntbl, ttbl, userID, req) == SyncPushFailing(ntbl, ttbl, userID, req, 0)

\* the records of the requests that are sent twice: live, one payload per
\* table, every client time
ReplayNotes ==
    { in \in PushNotes :
        /\ in.title = "T" /\ in.type = "note" /\ in.user_id = Owner
        /\ in.deleted_at = Nil }

ReplayTodos ==
    { in \in PushTodos :
        in.content = "buy" /\ in.user_id = Owner /\ in.deleted_at = Nil }

\* the push requests of at most MaxBatch records
ReplayRequests ==
    UNION { { [notes |-> ns, todos |-> ts] :
                ns \in [1 .. k -> ReplayNotes],
                ts \in SeqsUpTo(ReplayTodos, MaxBatch - k) } :
            k \in 0 .. MaxBatch }

NoResponse == [status |-> 0, accepted |-> 0, conflicts |-> << >>,
               sync_timestamp |-> 0]

IdleReplay ==
    [pc |-> "idle", user |-> "", req |-> [notes |-> << >>, todos |-> << >>],
     first |-> NoResponse, second |-> NoResponse,
     after |-> [notes |-> << >>, todos |-> << >>]]

InitReplay ==
    /\ InitServer
    /\ InitAuth
    /\ maxAccepted = [i \in NoteIds \cup TodoIds |-> Nil]
    /\ workers = << >> /\ chain = << >> /\ writer = << >> /\ devices = << >>
    /\ replay = IdleReplay
    /\ read = << >>
    /\ InitFront

auxReplay == <<push, pull, maxAccepted, workers, chain, writer, devices, authVars,
              read, frontVars>>

\* POST /sync/push with the request req
ReplayFirst(userID, req) ==
    /\ replay.pc \in {"idle", "second"}
    /\ 0 < Len(req.notes) + Len(req.todos)
    /\ Len(req.notes) + Len(req.todos) <= MaxBatch
    /\ LET r == SyncPush(notes, todos, userID, req) IN
       /\ notes' = r.notes
       /\ todos' = r.todos
       /\ resp' = r.response.status
       /\ replay' = [pc |-> "first", user |-> userID, req |-> req,
                     first |-> r.response, second |-> NoResponse,
                     after |-> [notes |-> r.notes, todos |-> r.todos]]
    /\ UNCHANGED <<now, auxReplay>>

\* POST /sync/push with the request of the previous push
ReplaySecond ==
    /\ replay.pc = "first"
    /\ LET r == SyncPush(notes, todos, replay.user, replay.req) IN
       /\ notes' = r.notes
       /\ todos' = r.todos
       /\ resp' = r.response.status
       /\ replay' = [replay EXCEPT !.pc = "second", !.second = r.response]
    /\ UNCHANGED <<now, auxReplay>>

\* the server clock advances between requests
ReplayTick ==
    /\ now < MaxClock
    /\ now' = now + 1
    /\ UNCHANGED <<notes, todos, resp, replay, auxReplay>>

\* the other tenant sends one record, stamped 0
OtherReplay(req) ==
    /\ Len(req.notes) + Len(req.todos) = 1
    /\ \A k \in 1 .. Len(req.notes) : req.notes[k].modified_at = 0
    /\ \A k \in 1 .. Len(req.todos) : req.todos[k].modified_at = 0

NextReplay ==
    \/ ReplayTick
    \/ \E u \in Users, req \in ReplayRequests :
         /\ u # Owner => OtherReplay(req)
         /\ ReplayFirst(u, req)
    \/ ReplaySecond

SpecReplay == InitReplay /\ [][NextReplay]_vars

\* ------------------------------------------------------------ SpecRetry
\* A client sends a push request during which the database may fail one
\* statement, and after a 500 sends the same request again to a database
\* that answers.  handleSyncPush is taken as a whole; no other write comes
\* in between the two requests.
\* client times of the records: the whole milliseconds 0 and 1 and a time
\* inside each of them
RetryTimes == {0, 1, TicksPerMilli, TicksPerMilli + 1}

\* notes with a type the schema accepts: the first payload live or as a
\* tombstone at every time, the second one live at two of them
RetryNotes ==
    { in \in PushNotes :
        /\ in.user_id = Owner /\ in.type # "memo"
        /\ in.modified_at \in RetryTimes
        /\ in.title = "Client" =>
              in.deleted_at = Nil /\ in.modified_at \in {1, TicksPerMilli} }

\* live todos; those with the second payload refer to note n1, which has
\* to exist (FOREIGN KEY) for the upsert to succeed
RetryTodos ==
    { in \in PushTodos :
        /\ in.user_id = Owner /\ in.deleted_at = Nil
        /\ in.modified_at \in {1, TicksPerMilli} }

RetryRequests ==
    UNION { { [notes |-> ns, todos |-> ts] :
                ns \in [1 .. k -> RetryNotes],
                ts \in SeqsUpTo(RetryTodos, MaxBatch - k) } :
            k \in 0 .. MaxBatch }

\* the retried push: the request, the upsert at which the database failed,
\* the status and body of both responses, and the tables the request would
\* have left had the database answered every statement
IdleRetry ==
    [pc |-> "idle", req |-> [notes |-> << >>, todos |-> << >>], fail |-> 0,
     first |-> NoResponse, second |-> NoResponse,
     before |-> [notes |-> << >>, todos |-> << >>],
     whole |-> [notes |-> << >>, todos |-> << >>]]

InitRetry ==
    /\ InitServer
    /\ InitAuth
    /\ maxAccepted = [i \in NoteIds \cup TodoIds |-> Nil]
    /\ workers = << >> /\ chain = << >> /\ writer = << >> /\ devices = << >>
    /\ replay = IdleRetry
    /\ read = << >>
    /\ InitFront

\* an earlier POST /sync/push, which fills the tables
RetryEarlier(userID, req) ==
    /\ replay.pc = "idle"
    /\ 0 < Len(req.notes) + Len(req.todos)
    /\ Len(req.notes) + Len(req.todos) <= MaxBatch
    /\ LET r == SyncPush(notes, todos, userID, req) IN
       /\ notes' = r.notes
       /\ todos' = r.todos
       /\ resp' = r.response.status
    /\ UNCHANGED <<now, replay, auxReplay>>

\* POST /sync/push with the request req; the database fails the upsert
\* number fail (0: none)
RetryFirst(userID, req, fail) ==
    /\ replay.pc = "idle"
    /\ 0 < Len(req.notes) + Len(req.todos)
    /\ Len(req.notes) + Len(req.todos) <= MaxBatch
    /\ fail <= Len(req.notes) + Len(req.todos)
    /\ LET r == SyncPushFailing(notes, todos, userID, req, fail)
           w == SyncPush(notes, todos, userID, req)
       IN
       /\ notes' = r.notes
       /\ todos' = r.todos
       /\ resp' = r.response.status
       /\ replay' = [pc |-> IF r.response.status = 500 THEN "first" ELSE "done",
                     req |-> req, fail |-> fail,
                     first |-> r.response, second |-> NoResponse,
                     before |-> [notes |-> notes, todos |-> todos],
                     whole |-> [notes |-> w.notes, todos |-> w.todos]]
    /\ UNCHANGED <<now, auxReplay>>

\* the client retries: POST /sync/push with the request that got the 500
RetrySecond(userID) ==
    /\ replay.pc = "first"
    /\ LET r == SyncPush(notes, todos, userID, replay.req) IN
       /\ notes' = r.notes
       /\ todos' = r.todos
       /\ resp' = r.response.status
       /\ replay' = [replay EXCEPT !.pc = "second", !.second = r.response]
    /\ UNCHANGED <<now, auxReplay>>

NextRetry ==
    \/ /\ replay.pc = "idle"
       /\ \E req \in RetryRequests : RetryEarlier(Owner, req)
    \/ /\ replay.pc = "idle"
       /\ \E req \in RetryRequests, fail \in 0 .. MaxBatch :
            RetryFirst(Owner, req, fail)
    \/ RetrySecond(Owner)

SpecRetry == InitRetry /\ [][NextRetry]_vars

\* ------------------------------------------------------ tokens and auth
\* time.Time.Unix of an instant given in milliseconds
Unix(ms) == ms \div MillisPerSecond

\* a signed JWT: its claims and the key that signed it ("server" stands for
\* a.privateKey); the ids NewID makes are written 1, 2, ... and jti is 0
\* in a token that has none
Jwt(type, sub, jti, deviceID, iat, exp) ==
    [type |-> type, sub |-> sub, jti |-> jti, device_id |-> deviceID,
     iat |-> iat, exp |-> exp, key |-> "server"]

issueAccessToken(userID, deviceID) ==
    Jwt("access", userID, 0, deviceID, Unix(now),
        Unix(now + accessTokenExpiry * MillisPerSecond))

issueRefreshToken(tokenID, userID, deviceID) ==
    Jwt("refresh", userID, tokenID, deviceID, Unix(now),
        Unix(now + refreshTokenExpiry * MillisPerSecond))

\* jwt.ParseWithClaims with the server's key function: the signature
\* verifies under the server's public key and exp is in the future
ParseWithClaims(tok) ==
    /\ tok.key = "server"
    /\ now < tok.exp * MillisPerSecond

parseRefreshToken(tok) ==
    IF ~ParseWithClaims(tok) \/ tok.type # "refresh"
    THEN [err |-> TRUE, userID |-> "", tokenID |-> 0, deviceID |-> ""]
    ELSE [err |-> FALSE, userID |-> tok.sub, tokenID |-> tok.jti,
          deviceID |-> tok.device_id]

\* a middleware that also wants a refresh token record of the user
auth_mut(header) ==
    IF header = Nil
    THEN [ok |-> FALSE, userID |-> "", deviceID |-> ""]
    ELSE LET tok == header[1] IN
         IF \/ ~ParseWithClaims(tok)
            \/ tok.type # "access"
            \/ tok.sub = ""
            \/ \A id \in DOMAIN refresh_tokens :
                  refresh_tokens[id].user_id # tok.sub
         THEN [ok |-> FALSE, userID |-> "", deviceID |-> ""]
         ELSE [ok |-> TRUE, userID |-> tok.sub, deviceID |-> tok.device_id]

\* the auth middleware: header is Nil when the request has no
\* Authorization header, else the token after "Bearer "
auth(header) ==
    IF header = Nil
    THEN [ok |-> FALSE, userID |-> "", deviceID |-> ""]
    ELSE LET tok == header[1] IN
         IF \/ ~ParseWithClaims(tok)
            \/ tok.type # "access"
            \/ tok.sub = ""
         THEN [ok |-> FALSE, userID |-> "", deviceID |-> ""]
         ELSE [ok |-> TRUE, userID |-> tok.sub, deviceID |-> tok.device_id]

\* database.HashToken: the digest of a token names the token
HashToken(tok) == <<"sha256", tok>>

\* -------------------------------------------------- refresh_tokens table
\* row -> model.RefreshToken
scanRefreshToken(row) ==
    [id |-> row.id, user_id |-> row.user_id, device_id |-> row.device_id,
     token_hash |-> row.token_hash,
     expires_at |-> fromMillis(row.expires_at),
     created_at |-> fromMillis(row.created_at)]

\* INSERT INTO refresh_tokens: fails on a taken primary key
CreateRefreshToken(tbl, rt) ==
    IF rt.id \in DOMAIN tbl
    THEN [err |-> TRUE, tbl |-> tbl]
    ELSE [err |-> FALSE,
          tbl |-> [i \in DOMAIN tbl \cup {rt.id} |->
                     IF i = rt.id
                     THEN [id |-> rt.id, user_id |-> rt.user_id,
                           device_id |-> rt.device_id,
                           token_hash |-> rt.token_hash,
                           expires_at |-> toMillis(rt.expires_at),
                           created_at |-> toMillis(rt.created_at)]
                     ELSE tbl[i]]]

\* SELECT ... WHERE token_hash = ?: one row, or Nil for ErrNotFound
GetRefreshTokenByHash(tbl, tokenHash) ==
    LET ids == { i \in DOMAIN tbl : tbl[i].token_hash = tokenHash } IN
    IF ids = {} THEN Nil
    ELSE <<scanRefreshToken(tbl[CHOOSE i \in ids : TRUE])>>

\* a DELETE that removes nothing
DeleteRefreshToken_mut(tbl, id) ==
    [i \in DOMAIN tbl |-> tbl[i]]

\* DELETE FROM refresh_tokens WHERE id = ?
DeleteRefreshToken(tbl, id) ==
    [i \in DOMAIN tbl \ {id} |-> tbl[i]]

\* DELETE FROM refresh_tokens WHERE user_id = ?
DeleteRefreshTokensByUser(tbl, userID) ==
    [i \in { j \in DOMAIN tbl : tbl[j].user_id # userID } |-> tbl[i]]

\* ---------------------------------------------------------- auth handlers
\* The registered users are Users; a user's email is written as the user's
\* id and the password of every user is "right".  A request worker runs
\* handleLogin in two steps (the user is read and the password compared;
\* the pair is issued and stored) and handleRefresh in four (lookup by
\* hash; delete by id; read of the user; issue and store).  handleLogout
\* and a request to any other protected route are one step.  A step with
\* fail = TRUE is one whose database statement returns an error.
LoginRequests ==
    { [email |-> e, password |-> p, device_id |-> "d1"] :
        e \in Users, p \in {"right", "wrong"} }
    \cup { [email |-> "u1", password |-> "right", device_id |-> ""],
           [email |-> "nobody", password |-> "right", device_id |-> "d1"] }

\* tokens nobody was handed: signed with another key
ForgedTokens ==
    { [Jwt("access", "u1", 0, "d1", 0, Unix(MaxClock) + accessTokenExpiry + 1)
         EXCEPT !.key = "other"],
      [Jwt("refresh", "u1", 1, "d1", 0, Unix(MaxClock) + refreshTokenExpiry + 1)
         EXCEPT !.key = "other"] }

\* what a client can present
PresentedTokens == handed \cup ForgedTokens

\* model.NewID: an id no record has had
NewID == Cardinality({ t \in handed : t.type = "refresh" }) + 1

IdleSession ==
    [pc |-> "idle", op |-> "", token |-> Nil, userID |-> "", deviceID |-> "",
     stored |-> Nil, late |-> FALSE, stale |-> FALSE, at |-> 0, status |-> 0,
     pair |-> Nil]

\* worker w is between two requests
Free(w) == sessions[w].pc \in {"idle", "done"}

\* the worker's state when its handler has written the response
Answer(s, status) == [s EXCEPT !.pc = "done", !.status = status]

auxAuth == <<notes, todos, resp, push, pull, maxAccepted, workers, chain,
             writer, devices, replay, read, frontVars>>

\* GetUserByEmail / GetUserByID over the registered users
GetUser(id) == IF id \in Users THEN <<[id |-> id, email |-> id]>> ELSE Nil

\* handleLogin up to the password comparison
handleLogin(w, req, fail) ==
    /\ Free(w)
    /\ LET s == [IdleSession EXCEPT !.op = "login", !.at = now]
           user == GetUser(req.email)
       IN sessions' = [sessions EXCEPT ![w] =
            IF req.email = "" \/ req.password = "" \/ req.device_id = ""
            THEN Answer(s, 400)
            ELSE IF fail THEN Answer(s, 500)
            ELSE IF user = Nil THEN Answer(s, 401)
            ELSE IF req.password # "right" THEN Answer(s, 401)
            ELSE [s EXCEPT !.pc = "issue", !.userID = user[1].id,
                           !.deviceID = req.device_id]]
    /\ UNCHANGED <<refresh_tokens, handed, spent, stale, before, now, auxAuth>>

\* handleRefresh up to the comparison of the stored record with the claims
handleRefreshLookup(w, tok, fail) ==
    /\ Free(w)
    /\ LET s == [IdleSession EXCEPT !.op = "refresh", !.token = <<tok>>,
                                    !.late = tok \in spent, !.at = now]
           p == parseRefreshToken(tok)
           stored == GetRefreshTokenByHash(refresh_tokens, HashToken(tok))
       IN sessions' = [sessions EXCEPT ![w] =
            IF p.err THEN Answer(s, 401)
            ELSE IF fail THEN Answer(s, 500)
            ELSE IF stored = Nil THEN Answer(s, 401)
            ELSE IF stored[1].id # p.tokenID \/ stored[1].user_id # p.userID
            THEN Answer(s, 401)
            ELSE [s EXCEPT !.pc = "delete", !.stored = stored,
                           !.userID = p.userID, !.deviceID = p.deviceID]]
    /\ before' = refresh_tokens
    /\ UNCHANGED <<refresh_tokens, handed, spent, stale, now, auxAuth>>

\* handleRefresh: "Rotation: delete old token"; an error is logged and the
\* handler goes on
handleRefreshDelete(w, fail) ==
    /\ sessions[w].pc = "delete"
    /\ refresh_tokens' =
         IF fail THEN refresh_tokens
         ELSE DeleteRefreshToken(refresh_tokens, sessions[w].stored[1].id)
    /\ sessions' = [sessions EXCEPT ![w].pc = "user"]
    /\ UNCHANGED <<handed, spent, stale, before, now, auxAuth>>

\* handleRefresh: user, err := a.db.GetUserByID(userID)
handleRefreshUser(w, fail) ==
    /\ sessions[w].pc = "user"
    /\ sessions' = [sessions EXCEPT ![w] =
         IF fail \/ GetUser(sessions[w].userID) = Nil
         THEN Answer(@, 401)
         ELSE [@ EXCEPT !.pc = "issue"]]
    /\ UNCHANGED <<refresh_tokens, handed, spent, stale, before, now, auxAuth>>

\* issueTokenPair and the response of handleLogin / handleRefresh
issueTokenPair(w, fail) ==
    /\ sessions[w].pc = "issue"
    /\ NewID <= MaxIssued
    /\ LET s == sessions[w]
           tokenID == NewID
           accessToken == issueAccessToken(s.userID, s.deviceID)
           refreshToken == issueRefreshToken(tokenID, s.userID, s.deviceID)
           rt == [id |-> tokenID, user_id |-> s.userID, device_id |-> s.deviceID,
                  token_hash |-> HashToken(refreshToken),
                  expires_at |-> fromMillis(now + refreshTokenExpiry * MillisPerSecond),
                  created_at |-> NowMillis]
           c == CreateRefreshToken(refresh_tokens, rt)
       IN IF fail \/ c.err
          THEN /\ sessions' = [sessions EXCEPT ![w] = Answer(@, 500)]
               /\ UNCHANGED <<refresh_tokens, handed, spent, stale>>
          ELSE /\ refresh_tokens' = c.tbl
               /\ sessions' = [sessions EXCEPT ![w] =
                    [Answer(@, 200) EXCEPT
                       !.pair = <<[access_token |-> accessToken,
                                   refresh_token |-> refreshToken]>>]]
               /\ handed' = handed \cup {accessToken, refreshToken}
               /\ spent' = IF s.op = "refresh" THEN spent \cup {s.token[1]}
                           ELSE spent
               /\ stale' = IF s.stale THEN stale \cup {tokenID} ELSE stale
    /\ UNCHANGED <<before, now, auxAuth>>

\* POST /auth/logout behind the auth middleware
handleLogout(w, header, fail) ==
    /\ Free(w)
    /\ LET a == auth(header)
           s == [IdleSession EXCEPT !.op = "logout", !.token = header,
                                    !.userID = a.userID, !.at = now]
       IN IF ~a.ok
          THEN /\ sessions' = [sessions EXCEPT ![w] = Answer(s, 401)]
               /\ UNCHANGED refresh_tokens
          ELSE IF fail
          THEN /\ sessions' = [sessions EXCEPT ![w] = Answer(s, 500)]
               /\ UNCHANGED refresh_tokens
          ELSE /\ refresh_tokens' =
                    DeleteRefreshTokensByUser(refresh_tokens, a.userID)
               /\ sessions' =
                    [v \in DOMAIN sessions |->
                       IF v = w THEN Answer(s, 204)
                       ELSE IF /\ sessions[v].pc \in {"delete", "user", "issue"}
                               /\ sessions[v].userID = a.userID
                       THEN [sessions[v] EXCEPT !.stale = TRUE]
                       ELSE sessions[v]]
    /\ UNCHANGED <<handed, spent, stale, before, now, auxAuth>>

\* the route behind a middleware that admits every token the server signed
handleProtected_mut(w, header) ==
    /\ Free(w)
    /\ LET ok == header # Nil /\ ParseWithClaims(header[1]) /\ header[1].sub # ""
           s == [IdleSession EXCEPT !.op = "request", !.token = header,
                                    !.userID = IF ok THEN header[1].sub ELSE "",
                                    !.at = now]
       IN sessions' = [sessions EXCEPT ![w] =
                         Answer(s, IF ok THEN 200 ELSE 401)]
    /\ UNCHANGED <<refresh_tokens, handed, spent, stale, before, now, auxAuth>>

\* a request to a protected route other than logout: the middleware admits
\* it (the handler answers, 200 here) or answers 401
handleProtected(w, header) ==
    /\ Free(w)
    /\ LET a == auth(header)
           s == [IdleSession EXCEPT !.op = "request", !.token = header,
                                    !.userID = a.userID, !.at = now]
       IN sessions' = [sessions EXCEPT ![w] =
                         Answer(s, IF a.ok THEN 200 ELSE 401)]
    /\ UNCHANGED <<refresh_tokens, handed, spent, stale, before, now, auxAuth>>

\* the clock advances until an access token issued at 0 has expired
AuthMaxClock == accessTokenExpiry * MillisPerSecond

AuthTick ==
    /\ now < AuthMaxClock
    /\ now' = now + 1
    /\ UNCHANGED <<authVars, auxAuth>>

\* ------------------------------------------------------------- SpecAuth
\* Two request workers serve logins, refreshes and logouts of Owner's
\* devices; the database statements of the two interleave and none fails.
\* The clock stands still.
AuthWorkers == {1, 2}

InitAuthWorkers(ws) ==
    /\ InitServer
    /\ maxAccepted = [i \in NoteIds \cup TodoIds |-> Nil]
    /\ workers = << >> /\ chain = << >> /\ writer = << >> /\ devices = << >>
    /\ replay = << >>
    /\ read = << >>
    /\ InitFront
    /\ refresh_tokens = << >>
    /\ sessions = [w \in ws |-> IdleSession]
    /\ handed = {} /\ spent = {} /\ stale = {}
    /\ before = << >>

\* the login requests of Owner
OwnerLogins == { req \in LoginRequests : req.email = Owner /\ req.device_id # "" }

NextAuth ==
    \/ \E w \in DOMAIN sessions, req \in OwnerLogins : handleLogin(w, req, FALSE)
    \/ \E w \in DOMAIN sessions, tok \in PresentedTokens :
         handleRefreshLookup(w, tok, FALSE)
    \/ \E w \in DOMAIN sessions : handleRefreshDelete(w, FALSE)
    \/ \E w \in DOMAIN sessions : handleRefreshUser(w, FALSE)
    \/ \E w \in DOMAIN sessions : issueTokenPair(w, FALSE)
    \/ \E w \in DOMAIN sessions, tok \in PresentedTokens :
         handleLogout(w, <<tok>>, FALSE)

SpecAuth == InitAuthWorkers(AuthWorkers) /\ [][NextAuth]_vars

\* --------------------------------------------------------- SpecAuthFail
\* One request worker serves Owner's devices; any database statement of an
\* auth handler can return an error.  The clock stands still.
NextAuthFail ==
    \/ \E w \in DOMAIN sessions, req \in OwnerLogins, fail \in BOOLEAN :
         handleLogin(w, req, fail)
    \/ \E w \in DOMAIN sessions, tok \in PresentedTokens, fail \in BOOLEAN :
         handleRefreshLookup(w, tok, fail)
    \/ \E w \in DOMAIN sessions, fail \in BOOLEAN : handleRefreshDelete(w, fail)
    \/ \E w \in DOMAIN sessions, fail \in BOOLEAN : handleRefreshUser(w, fail)
    \/ \E w \in DOMAIN sessions, fail \in BOOLEAN : issueTokenPair(w, fail)
    \/ \E w \in DOMAIN sessions, tok \in PresentedTokens, fail \in BOOLEAN :
         handleLogout(w, <<tok>>, fail)

SpecAuthFail == InitAuthWorkers({1}) /\ [][NextAuthFail]_vars

\* ---------------------------------------------------------- SpecSession
\* One request worker serves the requests of Owner's devices one after the
\* other while the clock advances: logins, refreshes, logouts and requests
\* to the other protected routes.
NextSession ==
    \/ AuthTick
    \/ \E w \in DOMAIN sessions, req \in OwnerLogins : handleLogin(w, req, FALSE)
    \/ \E w \in DOMAIN sessions, tok \in PresentedTokens :
         handleRefreshLookup(w, tok, FALSE)
    \/ \E w \in DOMAIN sessions : handleRefreshDelete(w, FALSE)
    \/ \E w \in DOMAIN sessions : handleRefreshUser(w, FALSE)
    \/ \E w \in DOMAIN sessions : issueTokenPair(w, FALSE)
    \/ \E w \in DOMAIN sessions, tok \in PresentedTokens :
         handleLogout(w, <<tok>>, FALSE)
    \/ \E w \in DOMAIN sessions, header \in {Nil} \cup { <<tok>> : tok \in PresentedTokens } :
         handleProtected(w, header)

SpecSession == InitAuthWorkers({1}) /\ [][NextSession]_vars

\* ------------------------------------------------- list, search, overdue
\* "ORDER BY modified_at DESC" (or due_date ASC): the orderings of the ids
\* by key (id -> value), descending or ascending; rows with the same key
\* come in any order
SortedBy(ids, key, desc) ==
    { q \in Orderings(ids) :
        \A i, j \in 1 .. Len(q) :
            i < j => IF desc THEN key[q[i]] >= key[q[j]]
                             ELSE key[q[i]] <= key[q[j]] }

\* "LIMIT ? OFFSET ?" over the ordered rows q
LimitOffset(q, limit, offset) ==
    SubSeq(q, offset + 1, IF offset + limit < Len(q) THEN offset + limit ELSE Len(q))

\* the ids of the rows "WHERE user_id = ? AND deleted_at IS NULL"
ListedIds(tbl, userID) ==
    { i \in DOMAIN tbl : tbl[i].user_id = userID /\ tbl[i].deleted_at = Nil }

\* the results ListNotes can return: the page and the count of all rows
ListNotes(tbl, userID, limit, offset) ==
    LET ids == ListedIds(tbl, userID)
        modifiedAt == [i \in ids |-> tbl[i].modified_at]
    IN { [notes |-> [k \in DOMAIN LimitOffset(q, limit, offset) |->
                       scanNote(tbl[LimitOffset(q, limit, offset)[k]])],
           total |-> Cardinality(ids)] :
         q \in SortedBy(ids, modifiedAt, TRUE) }

\* the results ListTodos can return
ListTodos(tbl, userID, limit, offset) ==
    LET ids == ListedIds(tbl, userID)
        modifiedAt == [i \in ids |-> tbl[i].modified_at]
    IN { [todos |-> [k \in DOMAIN LimitOffset(q, limit, offset) |->
                       scanTodo(tbl[LimitOffset(q, limit, offset)[k]])],
           total |-> Cardinality(ids)] :
         q \in SortedBy(ids, modifiedAt, TRUE) }

\* the characters of the strings of the input sets with the ASCII letters
\* in lower case, as LIKE compares them
Chars(s) ==
    CASE s = "T" -> <<"t">>
      [] s = "C" -> <<"c">>
      [] s = "Client" -> <<"c", "l", "i", "e", "n", "t">>
      [] s = "client version" ->
            <<"c", "l", "i", "e", "n", "t", " ", "v", "e", "r", "s", "i", "o", "n">>
      [] s = "t" -> <<"t">>
      [] s = "v" -> <<"v">>
      [] s = "x" -> <<"x">>
      [] s = "_" -> <<"_">>
      [] s = "%" -> <<"%">>
      [] OTHER -> << >>

\* s LIKE p: % stands for any characters, _ for one character
RECURSIVE Like(_, _)
Like(s, p) ==
    IF p = << >> THEN s = << >>
    ELSE IF Head(p) = "%"
    THEN Like(s, Tail(p)) \/ (s # << >> /\ Like(Tail(s), p))
    ELSE /\ s # << >>
         /\ Head(p) = "_" \/ Head(p) = Head(s)
         /\ Like(Tail(s), Tail(p))

\* the results SearchNotes can return
SearchNotes(tbl, userID, query, limit, offset) ==
    LET pattern == <<"%">> \o Chars(query) \o <<"%">>
        ids == { i \in ListedIds(tbl, userID) :
                   \/ Like(Chars(tbl[i].title), pattern)
                   \/ Like(Chars(tbl[i].content), pattern) }
        modifiedAt == [i \in ids |-> tbl[i].modified_at]
    IN { [notes |-> [k \in DOMAIN LimitOffset(q, limit, offset) |->
                       scanNote(tbl[LimitOffset(q, limit, offset)[k]])],
           total |-> Cardinality(ids)] :
         q \in SortedBy(ids, modifiedAt, TRUE) }

\* the results GetOverdueTodos can return at clock reading clock
GetOverdueTodos(tbl, userID, clock) ==
    LET ids == { i \in ListedIds(tbl, userID) :
                   /\ ~tbl[i].completed
                   /\ tbl[i].due_date # Nil
                   /\ tbl[i].due_date[1] < toMillis(fromMillis(clock)) }
        dueDate == [i \in ids |-> tbl[i].due_date[1]]
    IN { [k \in 1 .. Len(q) |-> scanTodo(tbl[q[k]])] :
         q \in SortedBy(ids, dueDate, FALSE) }

\* the value of a decimal digit, -1 for any other character
Digit(c) ==
    CASE c = "0" -> 0 [] c = "1" -> 1 [] c = "2" -> 2 [] c = "3" -> 3
      [] c = "4" -> 4 [] c = "5" -> 5 [] c = "6" -> 6 [] c = "7" -> 7
      [] c = "8" -> 8 [] c = "9" -> 9 [] OTHER -> -1

\* the number the digits ds denote
RECURSIVE Decimal(_)
Decimal(ds) ==
    IF ds = << >> THEN 0
    ELSE 10 * Decimal(SubSeq(ds, 1, Len(ds) - 1)) + Digit(ds[Len(ds)])

\* strconv.Atoi on a string given as its characters: an optional sign and
\* digits; err for anything else and for a number outside the range of
\* int, which every string of more than 19 digits denotes (the input sets
\* have no strings of 10 to 19 digits)
Atoi(s) ==
    LET signed == s # << >> /\ s[1] \in {"+", "-"}
        ds == IF signed THEN Tail(s) ELSE s
    IN IF ds = << >> \/ \E i \in 1 .. Len(ds) : Digit(ds[i]) = -1
       THEN [err |-> TRUE, v |-> 0]
       ELSE IF Len(ds) > 19 THEN [err |-> TRUE, v |-> 0]
       ELSE [err |-> FALSE,
             v |-> IF signed /\ s[1] = "-" THEN 0 - Decimal(ds) ELSE Decimal(ds)]

\* queryInt: param is r.URL.Query().Get(key), the characters of the
\* parameter's value, empty when the parameter is absent
queryInt(param, def) ==
    IF param = << >> THEN def
    ELSE LET a == Atoi(param) IN
         IF a.err \/ a.v < 0 THEN def ELSE a.v

\* ---------------------------------------------------------- read handlers
\* The body of a response: error is the message of writeError ("" when the
\* response is not an error), items the note, the todo or the list the
\* response carries.
Body(error, items, total, limit, offset) ==
    [error |-> error, items |-> items, total |-> total, limit |-> limit,
     offset |-> offset]

ErrorBody(msg) == Body(msg, << >>, 0, 0, 0)

\* the limit passed on as it came out of queryInt
ListLimit_mut(args) == queryInt(args.limit, 50)

\* the limit and offset handleListNotes passes on
ListLimit(args) ==
    IF queryInt(args.limit, 50) > 200 THEN 200 ELSE queryInt(args.limit, 50)

ListOffset(args) == queryInt(args.offset, 0)

\* GET /notes/{id}: the responses over the table tbl
handleGetNoteResponses(tbl, userID, id) ==
    LET note == GetNote(tbl, id, userID) IN
    IF note = Nil
    THEN { [status |-> 404, body |-> ErrorBody("note not found")] }
    ELSE { [status |-> 200, body |-> Body("", note, 0, 0, 0)] }

\* GET /notes?limit=&offset=
handleListNotesResponses(tbl, userID, args) ==
    { [status |-> 200,
       body |-> Body("", r.notes, r.total, ListLimit(args), ListOffset(args))] :
      r \in ListNotes(tbl, userID, ListLimit(args), ListOffset(args)) }

\* GET /notes/search?q=&limit=&offset=
handleSearchNotesResponses(tbl, userID, args) ==
    IF args.q = ""
    THEN { [status |-> 400, body |-> ErrorBody("q parameter is required")] }
    ELSE { [status |-> 200,
            body |-> Body("", r.notes, r.total, ListLimit(args), ListOffset(args))] :
           r \in SearchNotes(tbl, userID, args.q, ListLimit(args), ListOffset(args)) }

\* GET /todos/{id}
handleGetTodoResponses(tbl, userID, id) ==
    LET todo == GetTodo(tbl, id, userID) IN
    IF todo = Nil
    THEN { [status |-> 404, body |-> ErrorBody("todo not found")] }
    ELSE { [status |-> 200, body |-> Body("", todo, 0, 0, 0)] }

\* GET /todos?limit=&offset=
handleListTodosResponses(tbl, userID, args) ==
    { [status |-> 200,
       body |-> Body("", r.todos, r.total, ListLimit(args), ListOffset(args))] :
      r \in ListTodos(tbl, userID, ListLimit(args), ListOffset(args)) }

\* GET /todos/overdue
handleGetOverdueTodosResponses(tbl, userID, clock) ==
    { [status |-> 200, body |-> Body("", r, 0, 0, 0)] :
      r \in GetOverdueTodos(tbl, userID, clock) }

\* the query parameters of a request; limit and offset are empty when
\* absent
NoArgs == [q |-> "", limit |-> Nil, offset |-> Nil, since |-> 0]

\* before any request
IdleRead ==
    [op |-> "", user |-> "", id |-> "", args |-> NoArgs, req |-> Nil, at |-> 0,
     status |-> 0, body |-> ErrorBody(""), gone |-> {}]

\* the row of id is in neither table changed by the step
Untouched(id) ==
    /\ id \in DOMAIN notes => notes'[id] = notes[id]
    /\ id \in DOMAIN todos => todos'[id] = todos[id]

\* The request and its response are recorded.  at is the clock reading
\* GetOverdueTodos took (0 for the other requests); gone is the history of
\* the soft deletes: the ids a DELETE answered 204 for whose row no
\* request has written since.
Served(op, userID, id, args, req, status, body) ==
    read' = [op |-> op, user |-> userID, id |-> id, args |-> args, req |-> req,
             at |-> IF op = "GET /todos/overdue" THEN now ELSE 0,
             status |-> status, body |-> body,
             gone |-> { i \in read.gone : Untouched(i) }
                        \cup IF op \in {"DELETE /notes/{id}", "DELETE /todos/{id}"}
                                /\ status = 204
                             THEN {id} ELSE {}]

\* a read handler answers with one of the responses rs
Read(op, userID, id, args, rs) ==
    /\ Idle
    /\ \E r \in rs :
          /\ Respond(r.status)
          /\ UNCHANGED <<notes, todos, now>>
          /\ Served(op, userID, id, args, Nil, r.status, r.body)

\* the handler looks the note up for its owner, whoever asks
handleGetNote_mut(userID, id) ==
    Read("GET /notes/{id}", userID, id, NoArgs,
         handleGetNoteResponses(notes,
            IF id \in DOMAIN notes THEN notes[id].user_id ELSE userID, id))

handleGetNote(userID, id) ==
    Read("GET /notes/{id}", userID, id, NoArgs,
         handleGetNoteResponses(notes, userID, id))

handleListNotes(userID, args) ==
    Read("GET /notes", userID, "", args,
         handleListNotesResponses(notes, userID, args))

handleSearchNotes(userID, args) ==
    Read("GET /notes/search", userID, "", args,
         handleSearchNotesResponses(notes, userID, args))

handleGetTodo(userID, id) ==
    Read("GET /todos/{id}", userID, id, NoArgs,
         handleGetTodoResponses(todos, userID, id))

handleListTodos(userID, args) ==
    Read("GET /todos", userID, "", args,
         handleListTodosResponses(todos, userID, args))

handleGetOverdueTodos(userID) ==
    Read("GET /todos/overdue", userID, "", NoArgs,
         handleGetOverdueTodosResponses(todos, userID, now))

\* ----------------------------------------------------------- SpecTenant
\* Both tenants write and read the same store through every data route,
\* one request at a time: POST, PUT, DELETE, one-record pushes (live or
\* tombstone, the body naming Owner) and all the reads.  The ids n1 and t1
\* are written by every route, by either tenant, whoever owns the record;
\* n2 is only created and read, and t2 is never created, so GET /todos/t2
\* asks for an unknown id.  Notes are written while the table todos is
\* empty and todos while the table notes is empty.  Every request and its
\* response are recorded in read.
TenantUpdateNote ==
    [title |-> <<"Client">>, content |-> <<"client version">>,
     type |-> <<"todo_list">>, device_id |-> "d1"]

\* POST /todos: a todo that is due at time 0
TenantCreateTodo ==
    [note_id |-> Nil, line_ref |-> Nil, content |-> "buy", due_date |-> <<0>>,
     device_id |-> "d1"]

TenantUpdateTodo ==
    [content |-> Nil, due_date |-> Nil, completed |-> <<TRUE>>,
     note_id |-> Nil, line_ref |-> Nil, device_id |-> "d1"]

\* the records of the pushes: one payload, whole milliseconds, the body
\* naming Owner whoever sends it
TenantPushNotes ==
    { n \in PushNotes :
        /\ n.title = "T" /\ n.type = "note" /\ n.user_id = Owner
        /\ n.modified_at = fromMillis(toMillis(n.modified_at)) }

TenantPushTodos ==
    { t \in PushTodos :
        /\ t.content = "buy" /\ t.user_id = Owner
        /\ t.modified_at = fromMillis(toMillis(t.modified_at)) }

TenantPushRequests ==
    { [notes |-> <<n>>, todos |-> << >>] : n \in TenantPushNotes }
    \cup { [notes |-> << >>, todos |-> <<t>>] : t \in TenantPushTodos }

\* the query parameters of the list and search requests
ListArgs ==
    { NoArgs,
      [NoArgs EXCEPT !.limit = <<"1">>, !.offset = <<"-", "1">>],
      [NoArgs EXCEPT !.limit = <<"2", "0", "1">>, !.offset = <<"1">>] }

SearchArgs == { [NoArgs EXCEPT !.q = q] : q \in {"", "v", "_"} }

InitTenant ==
    /\ InitServer
    /\ InitAuth
    /\ maxAccepted = [i \in NoteIds \cup TodoIds |-> Nil]
    /\ workers = << >> /\ chain = << >> /\ writer = << >> /\ devices = << >>
    /\ replay = << >>
    /\ read = IdleRead
    /\ InitFront

\* todos are written and read while the table notes is empty
TenantTodosTurn == DOMAIN notes = {}

auxTenant == <<maxAccepted, workers, chain, writer, devices, replay, authVars,
               frontVars>>

\* POST /sync/push, the whole handler
handleSyncPush(userID, req) ==
    /\ Idle
    /\ LET r == SyncPush(notes, todos, userID, req) IN
       /\ notes' = r.notes
       /\ todos' = r.todos
       /\ Respond(r.response.status)
       /\ UNCHANGED now
       /\ Served("POST /sync/push", userID, "", NoArgs, req, r.response.status,
                 r.response)

\* a request that writes: the handler runs and the request is recorded
Write(op, userID, id, req) ==
    Served(op, userID, id, NoArgs, req, resp', ErrorBody(""))

NextTenant ==
    \/ Tick /\ UNCHANGED <<aux>>
    \/ \E u \in Users, newID \in ListNoteIds \ DOMAIN notes :
         /\ NotesTurn
         /\ handleCreateNote(u, ListCreateNote, newID)
         /\ Write("POST /notes", u, newID, ListCreateNote)
         /\ UNCHANGED auxTenant
    \/ \E u \in Users, id \in NoteIds :
         /\ NotesTurn
         /\ handleUpdateNote(u, id, TenantUpdateNote)
         /\ Write("PUT /notes/{id}", u, id, TenantUpdateNote)
         /\ UNCHANGED auxTenant
    \/ \E u \in Users, id \in NoteIds, d \in TokenDevices :
         /\ NotesTurn
         /\ handleDeleteNote(u, id, d)
         /\ Write("DELETE /notes/{id}", u, id, Nil)
         /\ UNCHANGED auxTenant
    \/ \E u \in Users, newID \in TodoIds \ DOMAIN todos :
         /\ TenantTodosTurn
         /\ handleCreateTodo(u, TenantCreateTodo, newID)
         /\ Write("POST /todos", u, newID, TenantCreateTodo)
         /\ UNCHANGED auxTenant
    \/ \E u \in Users, id \in TodoIds :
         /\ TenantTodosTurn
         /\ handleUpdateTodo(u, id, TenantUpdateTodo)
         /\ Write("PUT /todos/{id}", u, id, TenantUpdateTodo)
         /\ UNCHANGED auxTenant
    \/ \E u \in Users, id \in TodoIds, d \in TokenDevices :
         /\ TenantTodosTurn
         /\ handleDeleteTodo(u, id, d)
         /\ Write("DELETE /todos/{id}", u, id, Nil)
         /\ UNCHANGED auxTenant
    \/ \E u \in Users, req \in TenantPushRequests :
         /\ IF req.notes # << >> THEN NotesTurn ELSE TenantTodosTurn
         /\ handleSyncPush(u, req)
         /\ UNCHANGED auxTenant
    \/ \E u \in Users, since \in Cursors :
         /\ handleSyncChanges(u, since)
         /\ Served("GET /sync/changes", u, "", [NoArgs EXCEPT !.since = since],
                   Nil, 200,
                   [notes |-> pull'.notes, todos |-> pull'.todos,
                    sync_timestamp |-> pull'.sync_timestamp])
         /\ UNCHANGED auxTenant
    \/ \E u \in Users, id \in ListNoteIds :
         NotesTurn /\ handleGetNote(u, id) /\ UNCHANGED auxTenant
    \/ \E u \in Users, args \in ListArgs :
         NotesTurn /\ handleListNotes(u, args) /\ UNCHANGED auxTenant
    \/ \E u \in Users, args \in SearchArgs :
         NotesTurn /\ handleSearchNotes(u, args) /\ UNCHANGED auxTenant
    \/ \E u \in Users, id \in ListTodoIds :
         TenantTodosTurn /\ handleGetTodo(u, id) /\ UNCHANGED auxTenant
    \/ \E u \in Users, args \in ListArgs :
         TenantTodosTurn /\ handleListTodos(u, args) /\ UNCHANGED auxTenant
    \/ \E u \in Users :
         TenantTodosTurn /\ handleGetOverdueTodos(u) /\ UNCHANGED auxTenant

SpecTenant == InitTenant /\ [][NextTenant]_vars

\* ------------------------------------------------------------ credentials
\* The strings of register and login requests are sequences of characters,
\* one element per rune.
Str(c, n) == [i \in 1 .. n |-> c]

\* strings.ToLower on the letters the requests use
ToLowerRune(c) ==
    CASE c = "A" -> "a"
      [] c = "B" -> "b"
      [] c = "C" -> "c"
      [] c = "U" -> "u"
      [] OTHER -> c

ToLower(s) == [i \in 1 .. Len(s) |-> ToLowerRune(s[i])]

\* strings.TrimSpace: leading and trailing white space is cut off
RECURSIVE TrimLeft(_)
TrimLeft(s) ==
    IF s # << >> /\ Head(s) = " " THEN TrimLeft(Tail(s)) ELSE s

RECURSIVE TrimRight(_)
TrimRight(s) ==
    IF s # << >> /\ s[Len(s)] = " "
    THEN TrimRight(SubSeq(s, 1, Len(s) - 1)) ELSE s

TrimSpace(s) == TrimRight(TrimLeft(s))

\* strings.IndexByte: the index, from 0, of the first c in s, or -1
IndexByte(s, c) ==
    IF \E i \in 1 .. Len(s) : s[i] = c
    THEN (CHOOSE i \in 1 .. Len(s) :
             s[i] = c /\ \A j \in 1 .. i - 1 : s[j] # c) - 1
    ELSE -1

\* len(s): the bytes of the UTF-8 encoding
RuneLen(c) == IF c = "é" THEN 2 ELSE 1

RECURSIVE ByteLen(_)
ByteLen(s) == IF s = << >> THEN 0 ELSE RuneLen(Head(s)) + ByteLen(Tail(s))

minPasswordLen == 8
maxPasswordLen == 72
maxEmailLen == 254
maxDisplayName == 200

isValidEmail(email) ==
    LET at == IndexByte(email, "@")
        domain == SubSeq(email, at + 2, Len(email))
    IN IF at < 1 THEN FALSE
       ELSE IF domain = << >> \/ IndexByte(domain, ".") = -1 THEN FALSE
       ELSE TRUE

\* bcrypt.GenerateFromPassword and bcrypt.CompareHashAndPassword
GenerateFromPassword(password) == <<"bcrypt", password>>

CompareHashAndPassword(hash, password) == hash = <<"bcrypt", password>>

\* the table users without UNIQUE on email
CreateUser_mut(tbl, u) ==
    IF u.id \in DOMAIN tbl
    THEN [err |-> "conflict", tbl |-> tbl]
    ELSE [err |-> "",
          tbl |-> [i \in DOMAIN tbl \cup {u.id} |->
                     IF i = u.id
                     THEN [id |-> u.id, email |-> u.email,
                           password_hash |-> u.password_hash,
                           display_name |-> u.display_name,
                           created_at |-> toMillis(u.created_at)]
                     ELSE tbl[i]]]

\* INSERT INTO users: err is "conflict" (ErrConflict) when a constraint of
\* the table, PRIMARY KEY on id or UNIQUE on email, rejects the row
CreateUser(tbl, u) ==
    IF u.id \in DOMAIN tbl \/ \E i \in DOMAIN tbl : tbl[i].email = u.email
    THEN [err |-> "conflict", tbl |-> tbl]
    ELSE [err |-> "",
          tbl |-> [i \in DOMAIN tbl \cup {u.id} |->
                     IF i = u.id
                     THEN [id |-> u.id, email |-> u.email,
                           password_hash |-> u.password_hash,
                           display_name |-> u.display_name,
                           created_at |-> toMillis(u.created_at)]
                     ELSE tbl[i]]]

\* SELECT ... FROM users WHERE email = ?: the row, or Nil for ErrNotFound
GetUserByEmail(tbl, email) ==
    LET ids == { i \in DOMAIN tbl : tbl[i].email = email } IN
    IF ids = {} THEN Nil
    ELSE LET row == tbl[CHOOSE i \in ids : TRUE] IN
         <<[row EXCEPT !.created_at = fromMillis(row.created_at)]>>

\* the request and the response of a credential route are recorded
Credential(op, req, status, body) ==
    read' = [op |-> op, req |-> req, status |-> status, body |-> body]

auxLogin == <<notes, todos, now, resp, push, pull, maxAccepted, workers, chain,
              writer, devices, replay, sessions, handed, spent, stale, before,
              limiter>>

\* POST /auth/register, let through by the rate limiter
handleRegister(req) ==
    LET email == TrimSpace(ToLower(req.email))
        displayName == TrimSpace(req.display_name)
        op == "POST /auth/register"
        user == [id |-> Cardinality(DOMAIN users) + 1, email |-> email,
                 password_hash |-> GenerateFromPassword(req.password),
                 display_name |-> TrimSpace(displayName),
                 created_at |-> NowMillis]
        c == CreateUser(users, user)
    IN /\ IF email = << >> \/ req.password = << >> \/ displayName = << >>
          THEN /\ Credential(op, req, 400,
                     ErrorBody("email, password, and display_name are required"))
               /\ UNCHANGED users
          ELSE IF ~isValidEmail(email)
          THEN /\ Credential(op, req, 400, ErrorBody("invalid email address"))
               /\ UNCHANGED users
          ELSE IF Len(email) > maxEmailLen
          THEN /\ Credential(op, req, 400, ErrorBody("email too long"))
               /\ UNCHANGED users
          ELSE IF Len(req.password) < minPasswordLen
          THEN /\ Credential(op, req, 400,
                     ErrorBody("password must be at least 8 characters"))
               /\ UNCHANGED users
          ELSE IF ByteLen(req.password) > maxPasswordLen
          THEN /\ Credential(op, req, 400, ErrorBody("password too long"))
               /\ UNCHANGED users
          ELSE IF Len(displayName) > maxDisplayName
          THEN /\ Credential(op, req, 400, ErrorBody("display name too long"))
               /\ UNCHANGED users
          ELSE IF c.err = "conflict"
          THEN /\ Credential(op, req, 409, ErrorBody("email already registered"))
               /\ UNCHANGED users
          ELSE /\ users' = c.tbl
               /\ Credential(op, req, 201,
                     Body("", <<[id |-> user.id, email |-> user.email,
                                 display_name |-> user.display_name,
                                 created_at |-> user.created_at]>>, 0, 0, 0))
       /\ UNCHANGED <<refresh_tokens, auxLogin>>

\* the handler telling the client that no user has the email
handleLoginRequest_mut(req) ==
    LET email == TrimSpace(ToLower(req.email))
        op == "POST /auth/login"
        user == GetUserByEmail(users, email)
        tokenID == Cardinality(DOMAIN refresh_tokens) + 1
        refreshToken == issueRefreshToken(tokenID, user[1].id, req.device_id)
        rt == [id |-> tokenID, user_id |-> user[1].id, device_id |-> req.device_id,
               token_hash |-> HashToken(refreshToken),
               expires_at |-> fromMillis(now + refreshTokenExpiry * MillisPerSecond),
               created_at |-> NowMillis]
        c == CreateRefreshToken(refresh_tokens, rt)
    IN /\ IF email = << >> \/ req.password = << >> \/ req.device_id = ""
          THEN /\ Credential(op, req, 400,
                     ErrorBody("email, password, and device_id are required"))
               /\ UNCHANGED refresh_tokens
          ELSE IF user = Nil
          THEN /\ Credential(op, req, 404, ErrorBody("user not found"))
               /\ UNCHANGED refresh_tokens
          ELSE IF ~CompareHashAndPassword(user[1].password_hash, req.password)
          THEN /\ Credential(op, req, 401, ErrorBody("invalid credentials"))
               /\ UNCHANGED refresh_tokens
          ELSE IF c.err
          THEN /\ Credential(op, req, 500, ErrorBody("internal error"))
               /\ UNCHANGED refresh_tokens
          ELSE /\ refresh_tokens' = c.tbl
               /\ Credential(op, req, 200,
                     Body("", <<[access_token |->
                                    issueAccessToken(user[1].id, req.device_id),
                                 refresh_token |-> refreshToken,
                                 user |-> user[1].id]>>, 0, 0, 0))
       /\ UNCHANGED <<users, auxLogin>>

\* POST /auth/login, let through by the rate limiter: handleLogin with
\* issueTokenPair, over the table users
handleLoginRequest(req) ==
    LET email == TrimSpace(ToLower(req.email))
        op == "POST /auth/login"
        user == GetUserByEmail(users, email)
        tokenID == Cardinality(DOMAIN refresh_tokens) + 1
        refreshToken == issueRefreshToken(tokenID, user[1].id, req.device_id)
        rt == [id |-> tokenID, user_id |-> user[1].id, device_id |-> req.device_id,
               token_hash |-> HashToken(refreshToken),
               expires_at |-> fromMillis(now + refreshTokenExpiry * MillisPerSecond),
               created_at |-> NowMillis]
        c == CreateRefreshToken(refresh_tokens, rt)
    IN /\ IF email = << >> \/ req.password = << >> \/ req.device_id = ""
          THEN /\ Credential(op, req, 400,
                     ErrorBody("email, password, and device_id are required"))
               /\ UNCHANGED refresh_tokens
          ELSE IF user = Nil
          THEN /\ Credential(op, req, 401, ErrorBody("invalid credentials"))
               /\ UNCHANGED refresh_tokens
          ELSE IF ~CompareHashAndPassword(user[1].password_hash, req.password)
          THEN /\ Credential(op, req, 401, ErrorBody("invalid credentials"))
               /\ UNCHANGED refresh_tokens
          ELSE IF c.err
          THEN /\ Credential(op, req, 500, ErrorBody("internal error"))
               /\ UNCHANGED refresh_tokens
          ELSE /\ refresh_tokens' = c.tbl
               /\ Credential(op, req, 200,
                     Body("", <<[access_token |->
                                    issueAccessToken(user[1].id, req.device_id),
                                 refresh_token |-> refreshToken,
                                 user |-> user[1].id]>>, 0, 0, 0))
       /\ UNCHANGED <<users, auxLogin>>

\* ------------------------------------------------------------- SpecLogin
\* Registrations and logins, one request after the other, each let through
\* by the rate limiter; the clock stands still.
Ascii(s) ==
    CASE s = "a@b.c" -> <<"a", "@", "b", ".", "c">>
      [] s = " A@B.C " -> <<" ", "A", "@", "B", ".", "C", " ">>
      [] s = "d@e.f" -> <<"d", "@", "e", ".", "f">>
      [] s = "ab.c" -> <<"a", "b", ".", "c">>
      [] s = "@b.c" -> <<"@", "b", ".", "c">>
      [] s = "a@bc" -> <<"a", "@", "b", "c">>
      [] s = "a@" -> <<"a", "@">>
      [] s = "correct1" -> <<"c", "o", "r", "r", "e", "c", "t", "1">>
      [] s = "incorrec1" -> <<"i", "n", "c", "o", "r", "r", "e", "c", "1">>
      [] s = "short" -> <<"s", "h", "o", "r", "t">>
      [] s = "User" -> <<"U", "s", "e", "r">>
      [] s = " " -> <<" ">>
      [] OTHER -> << >>

RegisterRequests ==
    { [email |-> Ascii(e), password |-> Ascii("correct1"),
       display_name |-> Ascii("User")] :
        e \in {"a@b.c", " A@B.C ", "d@e.f", "ab.c", "@b.c", "a@bc", "a@", " ", ""} }
    \cup
    { [email |-> Ascii("a@b.c"), password |-> pw, display_name |-> Ascii("User")] :
        pw \in { Ascii("short"), << >>, Str("x", 73), Str("é", 37) } }
    \cup
    { [email |-> Ascii("d@e.f"), password |-> Ascii("correct1"), display_name |-> d] :
        d \in { Ascii(" "), Str("n", 201), Str("n", 200) } }
    \cup
    { [email |-> Str("a", 251) \o Ascii("@b.c"), password |-> Ascii("correct1"),
       display_name |-> Ascii("User")] }

CredentialLogins ==
    { [email |-> Ascii(e), password |-> Ascii(pw), device_id |-> d] :
        e \in {"a@b.c", " A@B.C ", "d@e.f", " "},
        pw \in {"correct1", "incorrec1", ""},
        d \in {"d1", ""} }

InitLogin ==
    /\ InitServer
    /\ InitAuth
    /\ maxAccepted = [i \in NoteIds \cup TodoIds |-> Nil]
    /\ workers = << >> /\ chain = << >> /\ writer = << >> /\ devices = << >>
    /\ replay = << >>
    /\ users = << >>
    /\ limiter = << >>
    /\ read = [op |-> "", req |-> Nil, status |-> 0, body |-> ErrorBody("")]

NextLogin ==
    \/ \E req \in RegisterRequests : handleRegister(req)
    \/ \E req \in CredentialLogins :
         /\ Cardinality(DOMAIN refresh_tokens) < MaxIssued
         /\ handleLoginRequest(req)

SpecLogin == InitLogin /\ [][NextLogin]_vars

\* -------------------------------------------------------------- SpecPage
\* Both tenants create and delete notes and todos, and Owner asks for
\* pages of the lists and of the search results with every kind of limit
\* and offset.  The clock stands still.
PageLimits ==
    { << >>, <<"0">>, <<"1">>, <<"2">>, <<"2", "0", "0">>, <<"2", "0", "1">>,
      <<"9", "9", "9">>, <<"a", "b", "c">>, <<"-", "1">>, <<"1", ".", "5">>,
      <<"+", "2">>, <<" ", "2">>, Str("9", 20) }

PageOffsets ==
    { << >>, <<"0">>, <<"1">>, <<"2">>, <<"9">>, <<"-", "1">>, <<"x">> }

PageArgs ==
    { [NoArgs EXCEPT !.limit = l] : l \in PageLimits }
    \cup { [NoArgs EXCEPT !.limit = l, !.offset = o] :
             l \in { << >>, <<"1">> }, o \in PageOffsets }

InitPage == InitTenant

NextPage ==
    \/ \E u \in Users, newID \in ListNoteIds \ DOMAIN notes :
         /\ handleCreateNote(u, ListCreateNote, newID)
         /\ Write("POST /notes", u, newID, ListCreateNote)
         /\ UNCHANGED auxTenant
    \/ \E u \in Users, id \in ListNoteIds, d \in TokenDevices :
         /\ handleDeleteNote(u, id, d)
         /\ Write("DELETE /notes/{id}", u, id, Nil)
         /\ UNCHANGED auxTenant
    \/ \E u \in Users, newID \in TodoIds \ DOMAIN todos :
         /\ handleCreateTodo(u, TenantCreateTodo, newID)
         /\ Write("POST /todos", u, newID, TenantCreateTodo)
         /\ UNCHANGED auxTenant
    \/ \E args \in PageArgs :
         handleListNotes(Owner, args) /\ UNCHANGED auxTenant
    \/ \E args \in PageArgs :
         handleSearchNotes(Owner, [args EXCEPT !.q = "t"]) /\ UNCHANGED auxTenant
    \/ \E args \in PageArgs :
         handleListTodos(Owner, args) /\ UNCHANGED auxTenant

SpecPage == InitPage /\ [][NextPage]_vars

\* ---------------------------------------------------------- SpecValidate
\* Owner sends the REST writes with every request body of the input sets,
\* valid or not, to ids that exist and to ids that do not.  The clock
\* stands still; every request and its response are recorded in read.
NextValidate ==
    \/ \E req \in CreateNoteRequests, newID \in ListNoteIds \ DOMAIN notes :
         /\ handleCreateNote(Owner, req, newID)
         /\ Write("POST /notes", Owner, newID, req)
         /\ UNCHANGED auxTenant
    \/ \E id \in ListNoteIds, req \in UpdateNoteRequests :
         /\ handleUpdateNote(Owner, id, req)
         /\ Write("PUT /notes/{id}", Owner, id, req)
         /\ UNCHANGED auxTenant
    \/ \E id \in ListNoteIds, d \in TokenDevices :
         /\ handleDeleteNote(Owner, id, d)
         /\ Write("DELETE /notes/{id}", Owner, id, Nil)
         /\ UNCHANGED auxTenant
    \/ \E req \in CreateTodoRequests, newID \in TodoIds \ DOMAIN todos :
         /\ handleCreateTodo(Owner, req, newID)
         /\ Write("POST /todos", Owner, newID, req)
         /\ UNCHANGED auxTenant
    \/ \E id \in TodoIds, req \in UpdateTodoRequests :
         /\ handleUpdateTodo(Owner, id, req)
         /\ Write("PUT /todos/{id}", Owner, id, req)
         /\ UNCHANGED auxTenant

SpecValidate == InitTenant /\ [][NextValidate]_vars

\* ----------------------------------------------------------- SpecRecord
\* Both tenants write the records n1 and t1 through every route that
\* writes: POST, PUT, DELETE and one-record pushes, live or tombstone, at
\* the client times RetryTimes, whole milliseconds or not.  Notes are written while
\* the table todos is empty and todos while the table notes is empty.
\* Every request is recorded in read; replay holds the two tables as they
\* were when the last request arrived.
RecordPushRequests ==
    { [notes |-> <<n>>, todos |-> << >>] :
        n \in { x \in PushNotes :
                 /\ x.user_id = Owner /\ x.type # "memo"
                 /\ x.modified_at \in RetryTimes } }
    \cup { [notes |-> << >>, todos |-> <<t>>] :
             t \in { x \in PushTodos :
                      x.user_id = Owner /\ x.modified_at \in RetryTimes } }

InitRecord ==
    /\ InitServer
    /\ InitAuth
    /\ InitFront
    /\ maxAccepted = [i \in NoteIds \cup TodoIds |-> Nil]
    /\ workers = << >> /\ chain = << >> /\ writer = << >> /\ devices = << >>
    /\ read = IdleRead
    /\ replay = [notes |-> << >>, todos |-> << >>]

auxRecord == <<maxAccepted, workers, chain, writer, devices, authVars, frontVars>>

\* the tables as the request finds them
Arrived == replay' = [notes |-> notes, todos |-> todos]

NextRecord ==
    \/ Tick /\ UNCHANGED <<aux>>
    \/ \E u \in Users, newID \in NoteIds \ DOMAIN notes :
         /\ NotesTurn
         /\ handleCreateNote(u, ListCreateNote, newID)
         /\ Write("POST /notes", u, newID, ListCreateNote)
         /\ Arrived /\ UNCHANGED auxRecord
    \/ \E u \in Users, id \in NoteIds :
         /\ NotesTurn
         /\ handleUpdateNote(u, id, TenantUpdateNote)
         /\ Write("PUT /notes/{id}", u, id, TenantUpdateNote)
         /\ Arrived /\ UNCHANGED auxRecord
    \/ \E u \in Users, id \in NoteIds, d \in TokenDevices :
         /\ NotesTurn
         /\ handleDeleteNote(u, id, d)
         /\ Write("DELETE /notes/{id}", u, id, Nil)
         /\ Arrived /\ UNCHANGED auxRecord
    \/ \E u \in Users, newID \in TodoIds \ DOMAIN todos :
         /\ TenantTodosTurn
         /\ handleCreateTodo(u, TenantCreateTodo, newID)
         /\ Write("POST /todos", u, newID, TenantCreateTodo)
         /\ Arrived /\ UNCHANGED auxRecord
    \/ \E u \in Users, id \in TodoIds :
         /\ TenantTodosTurn
         /\ handleUpdateTodo(u, id, TenantUpdateTodo)
         /\ Write("PUT /todos/{id}", u, id, TenantUpdateTodo)
         /\ Arrived /\ UNCHANGED auxRecord
    \/ \E u \in Users, id \in TodoIds, d \in TokenDevices :
         /\ TenantTodosTurn
         /\ handleDeleteTodo(u, id, d)
         /\ Write("DELETE /todos/{id}", u, id, Nil)
         /\ Arrived /\ UNCHANGED auxRecord
    \/ \E u \in Users, req \in RecordPushRequests :
         /\ IF req.notes # << >> THEN NotesTurn ELSE TenantTodosTurn
         /\ handleSyncPush(u, req)
         /\ Arrived /\ UNCHANGED auxRecord

SpecRecord == InitRecord /\ [][NextRecord]_vars

\* ----------------------------------------------------------- SpecBounds
\* Owner writes n1 and t1 through the three write paths with fields at and
\* over the limits of the REST handlers: titles of 500 and 501 code points,
\* a type the schema rejects, a todo content of 10001 code points.  The
\* clock stands still; every request and its response are recorded in read.
BoundsCreateNotes ==
    CreateNoteRequests
    \cup { [title |-> "T500", content |-> "C", type |-> "note", device_id |-> "d1"] }

BoundsUpdateNotes ==
    UpdateNoteRequests
    \cup { [title |-> <<"T500">>, content |-> Nil, type |-> Nil, device_id |-> "d1"] }

BoundsCreateTodos ==
    CreateTodoRequests
    \cup { [note_id |-> Nil, line_ref |-> Nil, content |-> "B10001",
            due_date |-> Nil, device_id |-> "d1"] }

BoundsUpdateTodos ==
    UpdateTodoRequests
    \cup { [content |-> <<"B10001">>, due_date |-> Nil, completed |-> Nil,
            note_id |-> Nil, line_ref |-> Nil, device_id |-> "d1"] }

\* one-record pushes: the record of a client that applies no limits
BoundsPushRequests ==
    { [notes |-> <<[n EXCEPT !.title = x]>>, todos |-> << >>] :
        x \in {"T", "T500", "T501"},
        n \in { y \in PushNotes :
                  /\ y.user_id = Owner /\ y.title = "T" /\ y.deleted_at = Nil
                  /\ y.modified_at \in {0, TicksPerMilli} } }
    \cup { [notes |-> << >>, todos |-> <<[t EXCEPT !.content = x]>>] :
             x \in {"buy", "B10001"},
             t \in { y \in PushTodos :
                       /\ y.user_id = Owner /\ y.content = "buy"
                       /\ y.deleted_at = Nil
                       /\ y.modified_at \in {0, TicksPerMilli} } }

NextBounds ==
    \/ \E req \in BoundsCreateNotes, newID \in NoteIds \ DOMAIN notes :
         /\ NotesTurn
         /\ handleCreateNote(Owner, req, newID)
         /\ Write("POST /notes", Owner, newID, req)
         /\ UNCHANGED auxTenant
    \/ \E id \in NoteIds, req \in BoundsUpdateNotes :
         /\ NotesTurn
         /\ handleUpdateNote(Owner, id, req)
         /\ Write("PUT /notes/{id}", Owner, id, req)
         /\ UNCHANGED auxTenant
    \/ \E req \in BoundsCreateTodos, newID \in TodoIds \ DOMAIN todos :
         /\ TenantTodosTurn
         /\ handleCreateTodo(Owner, req, newID)
         /\ Write("POST /todos", Owner, newID, req)
         /\ UNCHANGED auxTenant
    \/ \E id \in TodoIds, req \in BoundsUpdateTodos :
         /\ TenantTodosTurn
         /\ handleUpdateTodo(Owner, id, req)
         /\ Write("PUT /todos/{id}", Owner, id, req)
         /\ UNCHANGED auxTenant
    \/ \E req \in BoundsPushRequests :
         /\ IF req.notes # << >> THEN NotesTurn ELSE TenantTodosTurn
         /\ handleSyncPush(Owner, req)
         /\ UNCHANGED auxTenant

SpecBounds == InitTenant /\ [][NextBounds]_vars

\* ------------------------------------------------------------ SpecPanic
\* model.NewID panics when rand.Read fails.  The handlers that call it run
\* under logRequests(cors(mux)) and a.auth, none of which defers a recover,
\* so the panic leaves Routes' handler and reaches the caller of ServeHTTP,
\* net/http's conn.serve: it recovers, logs and closes the connection.  The
\* process goes on; the client of the request reads no response (status 0).

\* POST /notes when rand.Read fails: the checks before model.NewID() answer
\* as usual, then the panic unwinds the handler before CreateNote
handleCreateNotePanic(userID, req) ==
    /\ Idle
    /\ UNCHANGED <<notes, todos, now>>
    /\ IF \/ req.device_id = ""
          \/ RuneCountInString(req.title) > maxTitleLen
          \/ RuneCountInString(req.content) > maxContentLen
          \/ req.type \notin {"", "note", "todo_list"}
       THEN Respond(400) /\ replay' = [panic |-> FALSE]
       ELSE Respond(0) /\ replay' = [panic |-> TRUE]

\* POST /todos when rand.Read fails
handleCreateTodoPanic(userID, req) ==
    /\ Idle
    /\ UNCHANGED <<notes, todos, now>>
    /\ IF \/ req.device_id = ""
          \/ RuneCountInString(req.content) > maxTodoContentLen
       THEN Respond(400) /\ replay' = [panic |-> FALSE]
       ELSE Respond(0) /\ replay' = [panic |-> TRUE]

InitPanic ==
    /\ InitServer
    /\ InitAuth
    /\ InitFront
    /\ maxAccepted = [i \in NoteIds \cup TodoIds |-> Nil]
    /\ workers = << >> /\ chain = << >> /\ writer = << >> /\ devices = << >>
    /\ read = IdleRead
    /\ replay = [panic |-> FALSE]

\* the request ran without a panic
Returned == replay' = [panic |-> FALSE]

NextPanic ==
    \/ \E req \in CreateNoteRequests, newID \in ListNoteIds \ DOMAIN notes :
         /\ handleCreateNote(Owner, req, newID)
         /\ Write("POST /notes", Owner, newID, req)
         /\ Returned /\ UNCHANGED auxRecord
    \/ \E req \in CreateNoteRequests :
         /\ handleCreateNotePanic(Owner, req)
         /\ Write("POST /notes", Owner, "", req)
         /\ UNCHANGED auxRecord
    \/ \E req \in CreateTodoRequests, newID \in TodoIds \ DOMAIN todos :
         /\ handleCreateTodo(Owner, req, newID)
         /\ Write("POST /todos", Owner, newID, req)
         /\ Returned /\ UNCHANGED auxRecord
    \/ \E req \in CreateTodoRequests :
         /\ handleCreateTodoPanic(Owner, req)
         /\ Write("POST /todos", Owner, "", req)
         /\ UNCHANGED auxRecord
    \/ \E id \in ListNoteIds, req \in UpdateNoteRequests :
         /\ handleUpdateNote(Owner, id, req)
         /\ Write("PUT /notes/{id}", Owner, id, req)
         /\ Returned /\ UNCHANGED auxRecord
    \/ \E id \in ListNoteIds, d \in TokenDevices :
         /\ handleDeleteNote(Owner, id, d)
         /\ Write("DELETE /notes/{id}", Owner, id, Nil)
         /\ Returned /\ UNCHANGED auxRecord
    \/ \E id \in ListNoteIds :
         handleGetNote(Owner, id) /\ Returned /\ UNCHANGED auxRecord

SpecPanic == InitPanic /\ [][NextPanic]_vars

\* ---------------------------------------------------------- SpecRegister
\* Two registrations run at once, each in two steps: the handler up to the
\* model.User it builds, then its one statement, the INSERT of CreateUser.
\* Logins run in between, one statement each.  The clock stands still.
\* replay[w] is the position of worker w: its request, the user it is about
\* to insert and its response.
RegisterWorkers == {1, 2}

IdleRegister == [pc |-> "idle", req |-> Nil, user |-> Nil, status |-> 0]

ConcurrentRegisters ==
    { [email |-> Ascii(e), password |-> Ascii(pw), display_name |-> Ascii("User")] :
        e \in {"a@b.c", " A@B.C ", "d@e.f", "ab.c"}, pw \in {"correct1", "short"} }

ConcurrentLogins ==
    { [email |-> Ascii(e), password |-> Ascii(pw), device_id |-> "d1"] :
        e \in {"a@b.c", " A@B.C ", "d@e.f"}, pw \in {"correct1", "incorrec1"} }

InitRegister ==
    /\ InitServer
    /\ InitAuth
    /\ maxAccepted = [i \in NoteIds \cup TodoIds |-> Nil]
    /\ workers = << >> /\ chain = << >> /\ writer = << >> /\ devices = << >>
    /\ replay = [w \in RegisterWorkers |-> IdleRegister]
    /\ users = << >>
    /\ limiter = << >>
    /\ read = [op |-> "", req |-> Nil, status |-> 0, body |-> ErrorBody("")]

auxRegister == <<notes, todos, now, resp, push, pull, maxAccepted, workers, chain,
                 writer, devices, authVars, limiter>>

\* handleRegister up to "user := &model.User{...}": the request is
\* normalised and checked, the password hashed
handleRegisterBegin(w, req) ==
    LET email == TrimSpace(ToLower(req.email))
        displayName == TrimSpace(req.display_name)
        user == [email |-> email,
                 password_hash |-> GenerateFromPassword(req.password),
                 display_name |-> TrimSpace(displayName),
                 created_at |-> NowMillis]
    IN /\ replay[w].pc # "create"
       /\ IF \/ email = << >> \/ req.password = << >> \/ displayName = << >>
             \/ ~isValidEmail(email)
             \/ Len(email) > maxEmailLen
             \/ Len(req.password) < minPasswordLen
             \/ ByteLen(req.password) > maxPasswordLen
             \/ Len(displayName) > maxDisplayName
          THEN replay' = [replay EXCEPT ![w] =
                            [pc |-> "done", req |-> req, user |-> Nil,
                             status |-> 400]]
          ELSE replay' = [replay EXCEPT ![w] =
                            [pc |-> "create", req |-> req, user |-> <<user>>,
                             status |-> 0]]
       /\ UNCHANGED <<users, read, auxRegister>>

\* "if err := a.db.CreateUser(user)" and the response; the id is the one
\* model.NewID drew
handleRegisterCreate(w) ==
    /\ replay[w].pc = "create"
    /\ LET u == replay[w].user[1]
           user == [id |-> Cardinality(DOMAIN users) + 1, email |-> u.email,
                    password_hash |-> u.password_hash,
                    display_name |-> u.display_name, created_at |-> u.created_at]
           c == CreateUser(users, user)
       IN /\ users' = c.tbl
          /\ replay' = [replay EXCEPT ![w].pc = "done",
                                      ![w].status =
                                          IF c.err = "conflict" THEN 409 ELSE 201]
    /\ UNCHANGED <<read, auxRegister>>

NextRegister ==
    \/ \E w \in RegisterWorkers, req \in ConcurrentRegisters :
         handleRegisterBegin(w, req)
    \/ \E w \in RegisterWorkers : handleRegisterCreate(w)
    \/ \E req \in ConcurrentLogins :
         /\ Cardinality(DOMAIN refresh_tokens) < MaxIssued
         /\ handleLoginRequest(req)

SpecRegister == InitRegister /\ [][NextRegister]_vars

\* ------------------------------------------------------------- SpecSkew
\* The web clients of Owner again, now each with a clock of its own: the
\* clock of device d reads the server clock plus skew[d], a fixed offset of
\* one millisecond ahead or behind.  A local edit is stamped with the
\* device's clock; the sync round is the one of SpecConv.  The server clock
\* starts at 2 ms, so that every device clock is past the epoch.
Skews == {-1, 1}

InitSkew ==
    /\ InitExt
    /\ notes = << >> /\ todos = << >>
    /\ now = 2
    /\ resp = 0 /\ push = IdlePush /\ pull = IdlePull
    /\ maxAccepted = [i \in NoteIds \cup TodoIds |-> Nil]
    /\ workers = << >> /\ chain = << >> /\ writer = << >>
    /\ \E sk \in [ConvDevices -> Skews] :
          devices = [d \in ConvDevices |->
                       [pc |-> "idle", last_sync |-> 0, notes |-> << >>,
                        todos |-> << >>,
                        changes |-> [notes |-> << >>, todos |-> << >>,
                                     sync_timestamp |-> 0],
                        edits |-> 0, skew |-> sk[d]]]

\* db.js localPutNote with a note the device stamped with its own clock
localPutNoteSkewed(d, id) ==
    /\ devices[d].edits < MaxEdits
    /\ LET at == fromMillis(now + devices[d].skew)
           note == [id |-> id, user_id |-> Owner, title |-> d,
                    content |-> "C", type |-> "note",
                    modified_at |-> at, modified_by_device |-> d,
                    deleted_at |-> Nil, created_at |-> at]
       IN devices' = [devices EXCEPT
                        ![d].edits = @ + 1,
                        ![d].notes = [i \in DOMAIN @ \cup {id} |->
                                        IF i = id THEN note ELSE @[i]]]
    /\ UNCHANGED <<server, auxConv>>

\* the clock advances, up to two milliseconds past MaxClock
SkewTick ==
    /\ now < MaxClock + 2
    /\ now' = now + 1
    /\ UNCHANGED <<notes, todos, resp, push, pull, aux>>

NextSkew ==
    \/ SkewTick
    \/ \E d \in ConvDevices, id \in NoteIds : localPutNoteSkewed(d, id)
    \/ \E d \in ConvDevices : doSyncPull(d)
    \/ \E d \in ConvDevices : doSyncApply(d)
    \/ \E d \in ConvDevices : doSyncPush(d)

\* every device keeps syncing
SpecSkew ==
    /\ InitSkew /\ [][NextSkew]_vars
    /\ \A d \in ConvDevices : WF_vars(doSync(d))

\* ------------------------------------------------------------ SpecFrame
\* Both tenants send PUT requests with every combination of present and
\* absent fields to n1 and t1, live, deleted, foreign or missing, while the
\* clock advances.  Notes are written while the table todos is empty, todos
\* while the notes are those POST /notes created at time 0.
FrameUpdateNotes ==
    { [title |-> ti, content |-> c, type |-> ty, device_id |-> "phone"] :
        ti \in {Nil, <<"Client">>}, c \in {Nil, <<"client version">>},
        ty \in {Nil, <<"todo_list">>, <<"memo">>} }
    \cup { [title |-> <<"T501">>, content |-> Nil, type |-> Nil,
            device_id |-> "phone"],
           [title |-> <<"Client">>, content |-> Nil, type |-> Nil,
            device_id |-> ""] }

FrameUpdateTodos ==
    { [content |-> c, due_date |-> dd, completed |-> co, note_id |-> n,
       line_ref |-> IF n = Nil THEN Nil ELSE <<"L1">>, device_id |-> "phone"] :
        c \in {Nil, <<"call">>}, dd \in {Nil, <<1>>},
        co \in {Nil, <<TRUE>>}, n \in {Nil, <<"n1">>, <<"n2">>} }
    \cup { [content |-> <<"B10001">>, due_date |-> Nil, completed |-> Nil,
            note_id |-> Nil, line_ref |-> Nil, device_id |-> "phone"],
           [content |-> <<"call">>, due_date |-> Nil, completed |-> Nil,
            note_id |-> Nil, line_ref |-> Nil, device_id |-> ""] }

NextFrame ==
    \/ Tick /\ UNCHANGED <<aux>>
    \/ \E u \in Users, newID \in NoteIds \ DOMAIN notes :
         /\ NotesTurn
         /\ handleCreateNote(u, ListCreateNote, newID)
         /\ Write("POST /notes", u, newID, ListCreateNote)
         /\ UNCHANGED auxTenant
    \/ \E u \in Users, id \in NoteIds, req \in FrameUpdateNotes :
         /\ NotesTurn
         /\ handleUpdateNote(u, id, req)
         /\ Write("PUT /notes/{id}", u, id, req)
         /\ UNCHANGED auxTenant
    \/ \E u \in Users, id \in NoteIds, d \in TokenDevices :
         /\ NotesTurn
         /\ handleDeleteNote(u, id, d)
         /\ Write("DELETE /notes/{id}", u, id, Nil)
         /\ UNCHANGED auxTenant
    \/ \E u \in Users, newID \in TodoIds \ DOMAIN todos :
         /\ TodosTurn
         /\ handleCreateTodo(u, TenantCreateTodo, newID)
         /\ Write("POST /todos", u, newID, TenantCreateTodo)
         /\ UNCHANGED auxTenant
    \/ \E u \in Users, id \in TodoIds, req \in FrameUpdateTodos :
         /\ TodosTurn
         /\ handleUpdateTodo(u, id, req)
         /\ Write("PUT /todos/{id}", u, id, req)
         /\ UNCHANGED auxTenant
    \/ \E u \in Users, id \in TodoIds, d \in TokenDevices :
         /\ TodosTurn
         /\ handleDeleteTodo(u, id, d)
         /\ Write("DELETE /todos/{id}", u, id, Nil)
         /\ UNCHANGED auxTenant

SpecFrame == InitTenant /\ [][NextFrame]_vars

\* ---------------------------------------------------------- SpecPutRace
\* A PUT /notes/{id} of Owner served by a worker of its own: between its
\* GetNote and its UpdateNote other requests of Owner are served whole, a
\* DELETE of the same note or a one-note sync push.  The worker is kept in
\* the variable writer.
IdlePut == [pc |-> "idle", id |-> "", req |-> Nil, note |-> Nil, status |-> 0]

RacingUpdateNotes ==
    { [title |-> ti, content |-> c, type |-> Nil, device_id |-> "phone"] :
        ti \in {Nil, <<"Client">>}, c \in {Nil, <<"client version">>} }

RacingPushRequests ==
    { r \in RecordPushRequests :
        /\ r.todos = << >>
        /\ r.notes[1].modified_at \in {0, TicksPerMilli + 1} }

InitPutRace ==
    /\ InitServer
    /\ InitAuth
    /\ InitFront
    /\ maxAccepted = [i \in NoteIds \cup TodoIds |-> Nil]
    /\ workers = << >> /\ chain = << >> /\ devices = << >>
    /\ replay = << >>
    /\ read = IdleRead
    /\ writer = IdlePut

auxPutRace == <<maxAccepted, workers, chain, devices, replay, authVars, frontVars>>

\* handleUpdateNote up to "note, err := a.db.GetNote(id, userID)" and the
\* checks after it: the request is answered 400 or 404, or the worker holds
\* the note it read with the fields of the body applied
handleUpdateNoteGet(id, req) ==
    /\ writer.pc # "read"
    /\ IF \/ req.device_id = ""
          \/ (req.title # Nil /\ RuneCountInString(req.title[1]) > maxTitleLen)
          \/ (req.content # Nil /\ RuneCountInString(req.content[1]) > maxContentLen)
       THEN writer' = [pc |-> "done", id |-> id, req |-> req, note |-> Nil,
                       status |-> 400]
       ELSE LET got == GetNote(notes, id, Owner) IN
            IF got = Nil
            THEN writer' = [pc |-> "done", id |-> id, req |-> req, note |-> Nil,
                            status |-> 404]
            ELSE IF req.type # Nil /\ req.type[1] # "note" /\ req.type[1] # "todo_list"
            THEN writer' = [pc |-> "done", id |-> id, req |-> req, note |-> Nil,
                            status |-> 400]
            ELSE writer' =
                   [pc |-> "read", id |-> id, req |-> req, status |-> 0,
                    note |-> <<[got[1] EXCEPT
                       !.title = IF req.title # Nil THEN req.title[1] ELSE @,
                       !.content = IF req.content # Nil THEN req.content[1] ELSE @,
                       !.type = IF req.type # Nil THEN req.type[1] ELSE @]>>]
    /\ UNCHANGED <<server, read, auxPutRace>>

\* handleUpdateNote from "note.ModifiedAt = model.NowMillis()": the note is
\* stamped, a.db.UpdateNote runs and the request is answered
handleUpdateNotePut ==
    /\ writer.pc = "read"
    /\ LET note == [writer.note[1] EXCEPT
                      !.modified_at = NowMillis,
                      !.modified_by_device = writer.req.device_id]
           u == UpdateNote(notes, note)
       IN /\ notes' = u.tbl
          /\ writer' = [writer EXCEPT
                          !.pc = "done",
                          !.status = IF u.err \/ u.notFound THEN 500 ELSE 200]
    /\ UNCHANGED <<todos, now, resp, push, pull, read, auxPutRace>>

NextPutRace ==
    \/ Tick /\ UNCHANGED <<writer, read, auxPutRace>>
    \/ \E newID \in NoteIds \ DOMAIN notes :
         /\ handleCreateNote(Owner, ListCreateNote, newID)
         /\ Write("POST /notes", Owner, newID, ListCreateNote)
         /\ UNCHANGED <<writer, auxPutRace>>
    \/ \E id \in NoteIds, req \in RacingUpdateNotes : handleUpdateNoteGet(id, req)
    \/ handleUpdateNotePut
    \/ \E id \in NoteIds :
         /\ handleDeleteNote(Owner, id, "d1")
         /\ Write("DELETE /notes/{id}", Owner, id, Nil)
         /\ UNCHANGED <<writer, auxPutRace>>
    \/ \E req \in RacingPushRequests :
         /\ handleSyncPush(Owner, req)
         /\ UNCHANGED <<writer, auxPutRace>>

SpecPutRace == InitPutRace /\ [][NextPutRace]_vars

\* ----------------------------------------------------------- SpecClient
\* The web client of Owner (web/src/lib/api.js, stores/auth.js): it logs in
\* once and then has two requests to a protected route under way at a time.
\* Every await of request() and refreshTokens() is a point where the other
\* request can run.  Request r is served by the worker r of the server,
\* which is idle again once the client has the response; the clock advances
\* until the access token of the login has expired.  The client is kept in
\* the variable devices.
ClientRequests == {1, 2}

IdleRequest == [pc |-> "idle", session |-> Nil, status |-> 0, refreshed |-> FALSE,
                retried |-> Nil]

InitClient ==
    /\ InitServer
    /\ maxAccepted = [i \in NoteIds \cup TodoIds |-> Nil]
    /\ workers = << >> /\ chain = << >> /\ writer = << >>
    /\ replay = << >>
    /\ read = << >>
    /\ InitFront
    /\ refresh_tokens = << >>
    /\ sessions = [w \in ClientRequests |-> IdleSession]
    /\ handed = {} /\ spent = {} /\ stale = {}
    /\ before = << >>
    /\ devices = [session |-> Nil, login |-> "none",
                  req |-> [r \in ClientRequests |-> IdleRequest]]

ClientLogin == [email |-> Owner, password |-> "right", device_id |-> "d1"]

auxClient == <<notes, todos, resp, push, pull, maxAccepted, workers, chain,
               writer, replay, read, frontVars>>

\* the session auth.setSession stores for a token pair
Session(pair) ==
    <<[accessToken |-> pair[1].access_token,
       refreshToken |-> pair[1].refresh_token]>>

\* the Authorization header request() builds from a session
Bearer(session) == IF session = Nil THEN Nil ELSE <<session[1].accessToken>>

\* the client has the response of worker w
Delivered(w) == sessions' = [sessions EXCEPT ![w] = IdleSession]

clientFrame == <<refresh_tokens, handed, spent, stale, before, now, auxClient>>

\* login(): the request is sent
loginFetch ==
    /\ devices.login = "none"
    /\ devices' = [devices EXCEPT !.login = "sent"]
    /\ UNCHANGED <<sessions, clientFrame>>

\* login(): auth.setSession with the pair of the response
loginSetSession ==
    /\ devices.login = "sent"
    /\ sessions[1].pc = "done"
    /\ devices' = [devices EXCEPT !.login = "done",
                                  !.session = Session(sessions[1].pair)]
    /\ Delivered(1)
    /\ UNCHANGED clientFrame

\* request(): "const session = get(auth)" and the first fetch
requestFetch(r) ==
    /\ devices.login = "done"
    /\ devices.req[r].pc \in {"idle", "returned"}
    /\ devices' = [devices EXCEPT !.req[r] =
                     [IdleRequest EXCEPT !.pc = "fetch",
                                         !.session = devices.session]]
    /\ UNCHANGED <<sessions, clientFrame>>

\* request(): the response of the first fetch; "Auto-refresh on 401" calls
\* refreshTokens with the refresh token the request read from the store,
\* any other response is returned
requestAnswered(r) ==
    /\ devices.req[r].pc = "fetch"
    /\ sessions[r].pc = "done"
    /\ devices' = [devices EXCEPT
                     !.req[r].status = sessions[r].status,
                     !.req[r].pc = IF /\ sessions[r].status = 401
                                      /\ devices.req[r].session # Nil
                                   THEN "refresh" ELSE "returned",
                     !.req[r].refreshed = /\ sessions[r].status = 401
                                          /\ devices.req[r].session # Nil]
    /\ Delivered(r)
    /\ UNCHANGED clientFrame

\* refreshTokens(): the response of POST /auth/refresh; "if (!resp.ok)
\* auth.logout()" and request() returns the 401, else auth.setSession and
\* request() goes on to the second fetch
refreshTokens(r) ==
    /\ devices.req[r].pc = "refresh"
    /\ sessions[r].pc = "done"
    /\ IF sessions[r].status # 200
       THEN devices' = [devices EXCEPT !.session = Nil,
                                       !.req[r].pc = "returned"]
       ELSE devices' = [devices EXCEPT
                          !.session = Session(sessions[r].pair),
                          !.req[r].pc = "retry",
                          !.req[r].retried = <<sessions[r].pair[1].access_token>>]
    /\ Delivered(r)
    /\ UNCHANGED clientFrame

\* request(): the response of the second fetch is returned
requestRetried(r) ==
    /\ devices.req[r].pc = "retry"
    /\ sessions[r].pc = "done"
    /\ devices' = [devices EXCEPT !.req[r].pc = "returned",
                                  !.req[r].status = sessions[r].status]
    /\ Delivered(r)
    /\ UNCHANGED clientFrame

NextClient ==
    \/ AuthTick
    \/ loginFetch
    \/ /\ devices.login = "sent" /\ sessions[1].pc = "idle"
       /\ handleLogin(1, ClientLogin, FALSE)
    \/ loginSetSession
    \/ \E r \in ClientRequests : requestFetch(r)
    \/ \E r \in ClientRequests :
         /\ devices.req[r].pc = "fetch" /\ sessions[r].pc = "idle"
         /\ handleProtected(r, Bearer(devices.req[r].session))
    \/ \E r \in ClientRequests : requestAnswered(r)
    \/ \E r \in ClientRequests :
         /\ devices.req[r].pc = "refresh" /\ sessions[r].pc = "idle"
         /\ handleRefreshLookup(r, devices.req[r].session[1].refreshToken, FALSE)
    \/ \E w \in ClientRequests : handleRefreshDelete(w, FALSE)
    \/ \E w \in ClientRequests : handleRefreshUser(w, FALSE)
    \/ \E w \in ClientRequests : issueTokenPair(w, FALSE)
    \/ \E r \in ClientRequests : refreshTokens(r)
    \/ \E r \in ClientRequests :
         /\ devices.req[r].pc = "retry" /\ sessions[r].pc = "idle"
         /\ handleProtected(r, devices.req[r].retried)
    \/ \E r \in ClientRequests : requestRetried(r)

SpecClient == InitClient /\ [][NextClient]_vars

\* ------------------------------------------------------------ SpecRound
\* One web client of Owner runs doSync round after round (sync.js 24-54)
\* with its status store: a round can find no session or no network, and
\* each of its awaits can throw (the pull, the apply transaction, the push,
\* the write of the cursor).  The device also edits notes locally and notes
\* are created on the server by REST.  The device record carries the
\* round's local lastSync, the syncStatus store and, as history, how the
\* last round ended.
RoundDevices == {"web-a"}

RoundDevice ==
    [pc |-> "idle", last_sync |-> 0, notes |-> << >>, todos |-> << >>,
     changes |-> [notes |-> << >>, todos |-> << >>, sync_timestamp |-> 0],
     edits |-> 0, lastSync |-> 0, syncStatus |-> "idle", ended |-> ""]

InitRound ==
    /\ InitExt
    /\ notes = << >> /\ todos = << >>
    /\ now = 1
    /\ resp = 0 /\ push = IdlePush /\ pull = IdlePull
    /\ maxAccepted = [i \in NoteIds \cup TodoIds |-> Nil]
    /\ workers = << >> /\ chain = << >> /\ writer = << >>
    /\ devices = [d \in RoundDevices |-> RoundDevice]

\* the catch block of doSync: syncStatus.set('error')
Caught(dev, at) ==
    [dev EXCEPT !.pc = "idle", !.syncStatus = "error", !.ended = at]

\* doSync up to "syncStatus.set('syncing')" and "lastSync = await
\* getLastSync()": a round without a session returns, a round that is
\* offline sets the status offline and returns
doSyncBegin(d, session, onLine, fail) ==
    /\ devices[d].pc = "idle"
    /\ devices' = [devices EXCEPT ![d] =
         IF ~session THEN [@ EXCEPT !.ended = "nosession"]
         ELSE IF ~onLine THEN [@ EXCEPT !.syncStatus = "offline",
                                        !.ended = "offline"]
         ELSE IF fail THEN Caught([@ EXCEPT !.syncStatus = "syncing"], "cursor")
         ELSE [@ EXCEPT !.pc = "begun", !.syncStatus = "syncing",
                        !.lastSync = devices[d].last_sync, !.ended = ""]]
    /\ UNCHANGED <<server, auxConv>>

\* the pull that stores its sync_timestamp at once
doSyncChanges_mut(d, fail) ==
    /\ devices[d].pc = "begun"
    /\ IF fail
       THEN /\ devices' = [devices EXCEPT ![d] = Caught(@, "pull")]
            /\ UNCHANGED server
       ELSE /\ handleSyncChanges(Owner, devices[d].lastSync)
            /\ devices' = [devices EXCEPT
                             ![d].pc = "pulled",
                             ![d].last_sync = pull'.sync_timestamp,
                             ![d].changes = [notes |-> pull'.notes,
                                             todos |-> pull'.todos,
                                             sync_timestamp |-> pull'.sync_timestamp]]
    /\ UNCHANGED auxConv

\* doSync: changes = await syncChanges(lastSync); the request throws when
\* it fails or is answered with an error
doSyncChanges(d, fail) ==
    /\ devices[d].pc = "begun"
    /\ IF fail
       THEN /\ devices' = [devices EXCEPT ![d] = Caught(@, "pull")]
            /\ UNCHANGED server
       ELSE /\ handleSyncChanges(Owner, devices[d].lastSync)
            /\ devices' = [devices EXCEPT
                             ![d].pc = "pulled",
                             ![d].changes = [notes |-> pull'.notes,
                                             todos |-> pull'.todos,
                                             sync_timestamp |-> pull'.sync_timestamp]]
    /\ UNCHANGED auxConv

\* doSync: await applyServerChanges(changes.notes, changes.todos); a
\* transaction that throws leaves the local store as it was
doSyncApplyChanges(d, fail) ==
    /\ devices[d].pc = "pulled"
    /\ devices' = [devices EXCEPT ![d] =
         IF fail THEN Caught(@, "apply")
         ELSE [@ EXCEPT
                 !.pc = "applied",
                 !.notes = applyServerChanges(@, devices[d].changes.notes),
                 !.todos = applyServerChanges(@, devices[d].changes.todos)]]
    /\ UNCHANGED <<server, auxConv>>

\* doSync: local = await getLocalChanges(lastSync) and syncPush if there
\* is something to push; a push that throws may or may not have reached
\* the server (lost = TRUE: it did not)
doSyncPushLocal(d, fail, lost) ==
    /\ devices[d].pc = "applied"
    /\ LET localNotes == getLocalChanges(devices[d].notes, devices[d].lastSync)
           localTodos == getLocalChanges(devices[d].todos, devices[d].lastSync)
           n == UpsertNotes(notes, Owner, localNotes)
           t == UpsertTodos(todos, n.tbl, Owner, localTodos)
       IN IF localNotes = << >> /\ localTodos = << >>
          THEN /\ UNCHANGED <<notes, todos, resp>>
               /\ devices' = [devices EXCEPT ![d].pc = "pushed"]
          ELSE IF fail /\ lost
          THEN /\ UNCHANGED <<notes, todos, resp>>
               /\ devices' = [devices EXCEPT ![d] = Caught(@, "push")]
          ELSE /\ notes' = n.tbl
               /\ todos' = IF n.err THEN todos ELSE t.tbl
               /\ resp' = IF n.err \/ t.err THEN 500 ELSE 200
               /\ devices' = [devices EXCEPT ![d] =
                    IF fail \/ n.err \/ t.err THEN Caught(@, "push")
                    ELSE [@ EXCEPT !.pc = "pushed"]]
    /\ UNCHANGED <<now, push, pull, auxConv>>

\* doSync: await setLastSync(changes.sync_timestamp);
\* syncStatus.set('idle')
doSyncSetLastSync(d, fail) ==
    /\ devices[d].pc = "pushed"
    /\ devices' = [devices EXCEPT ![d] =
         IF fail THEN Caught(@, "store")
         ELSE [@ EXCEPT !.pc = "idle", !.syncStatus = "idle",
                        !.last_sync = devices[d].changes.sync_timestamp,
                        !.ended = "done"]]
    /\ UNCHANGED <<server, auxConv>>

NextRound ==
    \/ ConvTick
    \/ \E newID \in NoteIds \ DOMAIN notes :
         handleCreateNote(Owner, ListCreateNote, newID) /\ UNCHANGED aux
    \/ \E d \in RoundDevices, id \in NoteIds : localPutNote(d, id)
    \/ \E d \in RoundDevices, session, onLine, fail \in BOOLEAN :
         doSyncBegin(d, session, onLine, fail)
    \/ \E d \in RoundDevices, fail \in BOOLEAN : doSyncChanges(d, fail)
    \/ \E d \in RoundDevices, fail \in BOOLEAN : doSyncApplyChanges(d, fail)
    \/ \E d \in RoundDevices, fail, lost \in BOOLEAN : doSyncPushLocal(d, fail, lost)
    \/ \E d \in RoundDevices, fail \in BOOLEAN : doSyncSetLastSync(d, fail)

SpecRound == InitRound /\ [][NextRound]_vars

\* ---------------------------------------------------------- rate limiter
\* newRateLimiter(20, time.Minute): rl.limit and rl.period; the limiter's
\* clock counts steps of 1/Minute of a minute
authLimit == 20
Minute == 1
authPeriod == Minute

\* the clock of the limiter runs until two windows have expired
LimiterMaxClock == 2 * authPeriod + 1

\* the connections credential requests arrive on: two of one client
\* address; the second one sends at most MaxSecond requests per window
Conns ==
    { [ip |-> "10.0.0.1", port |-> 1001], [ip |-> "10.0.0.1", port |-> 1002] }

MaxSecond == 2

\* r.RemoteAddr as net/http sets it: "IP:port" of the connection
RemoteAddr(conn) == <<conn.ip, ":", conn.port>>

LimiterWorkers == {1, 2}

\* now.After(w.resetAt)
Expired(w, t) == t > w.resetAt

\* a limiter that lets one more request through
allow_mut(windows, key, t) ==
    IF key \notin DOMAIN windows \/ Expired(windows[key], t)
    THEN [ok |-> TRUE,
          windows |-> [k \in DOMAIN windows \cup {key} |->
                         IF k = key THEN [count |-> 1, resetAt |-> t + authPeriod]
                         ELSE windows[k]]]
    ELSE [ok |-> windows[key].count + 1 <= authLimit + 1,
          windows |-> [windows EXCEPT ![key].count = @ + 1]]

\* rl.allow(key) at clock reading t, under rl.mu: ok is the returned bool,
\* windows the map afterwards
allow(windows, key, t) ==
    IF key \notin DOMAIN windows \/ Expired(windows[key], t)
    THEN [ok |-> TRUE,
          windows |-> [k \in DOMAIN windows \cup {key} |->
                         IF k = key THEN [count |-> 1, resetAt |-> t + authPeriod]
                         ELSE windows[k]]]
    ELSE [ok |-> windows[key].count + 1 <= authLimit,
          windows |-> [windows EXCEPT ![key].count = @ + 1]]

\* a sweep that also takes the windows that end at t
cleanup_mut(windows, t) ==
    [k \in { j \in DOMAIN windows : t < windows[j].resetAt } |-> windows[k]]

\* rl.cleanup() at clock reading t, under rl.mu
cleanup(windows, t) ==
    [k \in { j \in DOMAIN windows : ~Expired(windows[j], t) } |-> windows[k]]

\* history: what a fixed-window count of the requests of one origin (a
\* limiter key, or a client address) comes to after one more request at
\* t: the window of the origin, the requests seen in it and those let
\* through
Counted(h, origin, t, ok) ==
    LET let == IF ok THEN 1 ELSE 0 IN
    IF origin \notin DOMAIN h \/ t > h[origin].resetAt
    THEN [o \in DOMAIN h \cup {origin} |->
            IF o = origin
            THEN [resetAt |-> t + authPeriod, seen |-> 1, through |-> let]
            ELSE h[o]]
    ELSE [h EXCEPT ![origin].seen = @ + 1, ![origin].through = @ + let]

IdleLimited == [pc |-> "idle", conn |-> Nil, status |-> 0, ran |-> FALSE]

InitLimiter ==
    /\ InitServer
    /\ InitAuth
    /\ maxAccepted = [i \in NoteIds \cup TodoIds |-> Nil]
    /\ workers = << >> /\ chain = << >> /\ writer = << >> /\ devices = << >>
    /\ replay = << >>
    /\ read = << >>
    /\ users = << >>
    /\ limiter = [clock |-> 0, windows |-> << >>,
                  reqs |-> [w \in LimiterWorkers |-> IdleLimited],
                  byKey |-> << >>, byIP |-> << >>]

auxLimiter == <<server, maxAccepted, workers, chain, writer, devices, replay,
                authVars, read, users>>

\* time passes
LimiterTick ==
    /\ limiter.clock < LimiterMaxClock
    /\ limiter' = [limiter EXCEPT !.clock = @ + 1]
    /\ UNCHANGED auxLimiter

\* rateLimit up to the call of the handler: a request worker takes a
\* credential request that came in on conn, key := r.RemoteAddr, rl.allow(key).
\* A window takes at most one request beyond rl.limit.  The response
\* of the worker's previous request is dropped.
rateLimit(w, conn) ==
    /\ limiter.reqs[w].pc \in {"idle", "done"}
    /\ LET key == RemoteAddr(conn)
           a == allow(limiter.windows, key, limiter.clock)
       IN /\ a.windows[key].count <= authLimit + 1
          /\ conn.port = 1002 => a.windows[key].count <= MaxSecond
          /\ limiter' = [limiter EXCEPT
                !.windows = a.windows,
                !.reqs[w] = [pc |-> IF a.ok THEN "next" ELSE "limited",
                             conn |-> <<conn>>, status |-> 0, ran |-> FALSE],
                !.byKey = Counted(@, key, limiter.clock, a.ok),
                !.byIP = Counted(@, conn.ip, limiter.clock, a.ok)]
    /\ UNCHANGED auxLimiter

\* "next(w, r)": the handler (handleRegister, handleLogin or handleRefresh)
\* runs and writes its response (200 here)
rateLimitNext(w) ==
    /\ limiter.reqs[w].pc = "next"
    /\ limiter' = [limiter EXCEPT
          !.reqs[w] = [pc |-> "done", conn |-> Nil, status |-> 200,
                       ran |-> TRUE]]
    /\ UNCHANGED auxLimiter

\* writeError(w, http.StatusTooManyRequests, "rate limit exceeded")
rateLimitExceeded(w) ==
    /\ limiter.reqs[w].pc = "limited"
    /\ limiter' = [limiter EXCEPT
          !.reqs[w] = [pc |-> "done", conn |-> Nil, status |-> 429,
                       ran |-> FALSE]]
    /\ UNCHANGED auxLimiter

\* the goroutine of New: limiter.cleanup() between two sleeps
limiterCleanup ==
    /\ limiter.windows # cleanup(limiter.windows, limiter.clock)
    /\ limiter' = [limiter EXCEPT !.windows = cleanup(@, limiter.clock)]
    /\ UNCHANGED auxLimiter

\* ----------------------------------------------------------- SpecLimiter
\* Two request workers serve the credential requests that arrive on the
\* connections Conns while the cleanup goroutine runs and time passes.
NextLimiter ==
    \/ LimiterTick
    \/ \E w \in LimiterWorkers, conn \in Conns : rateLimit(w, conn)
    \/ \E w \in LimiterWorkers : rateLimitNext(w)
    \/ \E w \in LimiterWorkers : rateLimitExceeded(w)
    \/ limiterCleanup

SpecLimiter == InitLimiter /\ [][NextLimiter]_vars

\* ------------------------------------------------------------ SpecSweep
\* The limiter alone: rl.allow is called with either key at any time and
\* rl.cleanup runs at any time, both under rl.mu.  Beside the map
\* rl.windows the state keeps, as history, the map of a limiter that got
\* the same calls of allow and was never swept (plain), the results of the
\* last call from both, the keys whose window a sweep removed (swept) and
\* whether the last call was for such a key (after).
SweepKeys == { RemoteAddr(conn) : conn \in Conns }

InitSweep ==
    /\ InitServer
    /\ InitAuth
    /\ maxAccepted = [i \in NoteIds \cup TodoIds |-> Nil]
    /\ workers = << >> /\ chain = << >> /\ writer = << >> /\ devices = << >>
    /\ replay = << >>
    /\ read = << >>
    /\ users = << >>
    /\ limiter = [clock |-> 0, windows |-> << >>, plain |-> << >>,
                  key |-> Nil, ok |-> TRUE, plainOk |-> TRUE,
                  swept |-> {}, after |-> FALSE]

\* time passes
SweepTick ==
    /\ limiter.clock < LimiterMaxClock
    /\ limiter' = [limiter EXCEPT !.clock = @ + 1]
    /\ UNCHANGED auxLimiter

\* rl.allow(key); a window takes at most one call beyond rl.limit
allowCall(key) ==
    /\ LET a == allow(limiter.windows, key, limiter.clock)
           p == allow(limiter.plain, key, limiter.clock)
       IN /\ p.windows[key].count <= authLimit + 1
          /\ limiter' = [limiter EXCEPT
                           !.windows = a.windows, !.ok = a.ok,
                           !.plain = p.windows, !.plainOk = p.ok,
                           !.key = <<key>>,
                           !.after = key \in limiter.swept,
                           !.swept = @ \ {key}]
    /\ UNCHANGED auxLimiter

\* rl.cleanup()
cleanupRun ==
    /\ LET swept == cleanup(limiter.windows, limiter.clock) IN
       limiter' = [limiter EXCEPT
                     !.windows = swept,
                     !.swept = @ \cup (DOMAIN limiter.windows \ DOMAIN swept)]
    /\ UNCHANGED auxLimiter

NextSweep ==
    \/ SweepTick
    \/ \E key \in SweepKeys : allowCall(key)
    \/ cleanupRun

SpecSweep == InitSweep /\ [][NextSweep]_vars

\* ---------------------------------------------------------------- claims
\* the record of the batch the push loop is at
Cur == push.cur[1]

\* the loop holds a note (todo) whose id the authenticated user has a row for
CurNoteExists == push.pc = "note" /\ GetNoteAny(notes, Cur.id, push.user) # Nil

CurTodoExists == push.pc = "todo" /\ GetTodoAny(todos, Cur.id, push.user) # Nil

MutableNote(r) ==
    [title |-> r.title, content |-> r.content, type |-> r.type,
     modified_at |-> r.modified_at, modified_by_device |-> r.modified_by_device,
     deleted_at |-> r.deleted_at]

MutableTodo(r) ==
    [note_id |-> r.note_id, line_ref |-> r.line_ref, content |-> r.content,
     due_date |-> r.due_date, completed |-> r.completed,
     modified_at |-> r.modified_at, modified_by_device |-> r.modified_by_device,
     deleted_at |-> r.deleted_at]

\* the push loop holds a record that is strictly newer than the stored one
CurNoteWins ==
    CurNoteExists /\ Cur.modified_at > fromMillis(notes[Cur.id].modified_at)

CurTodoWins ==
    CurTodoExists /\ Cur.modified_at > fromMillis(todos[Cur.id].modified_at)

\* C2 as stated: a pushed record that is strictly newer than the stored one
\* makes every mutable field of the stored record equal to the incoming
\* value, is counted as accepted and reports no conflict.
C2_WinningPushOverwrites_Original ==
    [][ /\ CurNoteWins
           => /\ MutableNote(scanNote(notes'[Cur.id])) = MutableNote(Cur)
              /\ push'.accepted = push.accepted + 1
              /\ push'.conflicts = push.conflicts
        /\ CurTodoWins
           => /\ MutableTodo(scanTodo(todos'[Cur.id])) = MutableTodo(Cur)
              /\ push'.accepted = push.accepted + 1
              /\ push'.conflicts = push.conflicts
      ]_vars

\* C2 (amended): a pushed record that is strictly newer than the stored one
\* and that the table takes (a note of type note or todo_list, a todo whose
\* note_id is unset or names a stored note) makes every mutable field of
\* the stored record equal to the incoming value, modified_at, deleted_at
\* and due_date cut to whole milliseconds, is counted as accepted and
\* reports no conflict; one the table does not take leaves the record as it
\* was and ends the push with an internal error.
C2_WinningPushOverwrites ==
    [][ /\ (CurNoteWins /\ NoteTypeOK(Cur.type))
           => /\ MutableNote(notes'[Cur.id]) =
                   [title |-> Cur.title, content |-> Cur.content,
                    type |-> Cur.type,
                    modified_at |-> Cur.modified_at \div TicksPerMilli,
                    modified_by_device |-> Cur.modified_by_device,
                    deleted_at |-> IF Cur.deleted_at = Nil THEN Nil
                                   ELSE <<Cur.deleted_at[1] \div TicksPerMilli>>]
              /\ push'.accepted = push.accepted + 1
              /\ push'.conflicts = push.conflicts
        /\ (CurNoteWins /\ ~NoteTypeOK(Cur.type))
           => notes' = notes /\ push'.pc = "error" /\ resp' = 500
        /\ (CurTodoWins /\ TodoNoteRefOK(notes, Cur.note_id))
           => /\ MutableTodo(todos'[Cur.id]) =
                   [note_id |-> Cur.note_id, line_ref |-> Cur.line_ref,
                    content |-> Cur.content,
                    due_date |-> IF Cur.due_date = Nil THEN Nil
                                 ELSE <<Cur.due_date[1] \div TicksPerMilli>>,
                    completed |-> Cur.completed,
                    modified_at |-> Cur.modified_at \div TicksPerMilli,
                    modified_by_device |-> Cur.modified_by_device,
                    deleted_at |-> IF Cur.deleted_at = Nil THEN Nil
                                   ELSE <<Cur.deleted_at[1] \div TicksPerMilli>>]
              /\ push'.accepted = push.accepted + 1
              /\ push'.conflicts = push.conflicts
        /\ (CurTodoWins /\ ~TodoNoteRefOK(notes, Cur.note_id))
           => todos' = todos /\ push'.pc = "error" /\ resp' = 500
      ]_vars

\* a push has overwritten a stored tombstone of a todo with a newer live
\* version whose modified_at lies inside a millisecond
C2_Witness ==
    /\ push.pc = "todos" /\ push.last = "accepted" /\ push.n = 2
    /\ push.accepted = 2
    /\ Cur.id \in DOMAIN todos
    /\ todos[Cur.id].created_at # toMillis(Cur.created_at)
    /\ todos[Cur.id].content = Cur.content
    /\ todos[Cur.id].deleted_at = Nil
    /\ fromMillis(todos[Cur.id].modified_at) # Cur.modified_at

\* C4: over REST create, REST update, REST delete and sync push, with push
\* timestamps chosen freely by the clients, the stored modified_at of a note
\* or a todo never decreases from one state to the next.
C4_ModifiedAtNeverDecreases ==
    [][ /\ \A id \in DOMAIN notes :
             id \in DOMAIN notes'
             /\ notes'[id].modified_at >= notes[id].modified_at
        /\ \A id \in DOMAIN todos :
             id \in DOMAIN todos'
             /\ todos'[id].modified_at >= todos[id].modified_at
      ]_vars

\* the step of the push loop that stores a note (a todo) and counts it
NoteAccepted == push.pc = "note" /\ push'.last = "accepted"

TodoAccepted == push.pc = "todo" /\ push'.last = "accepted"

\* C10 as stated: when a push of a record is accepted, a following pull by
\* the same user with any cursor smaller than the record's modified_at
\* returns the record with every field equal to the pushed value, user_id
\* being the authenticated user.
C10_RoundTrip_Original ==
    [][ /\ NoteAccepted =>
             \A c \in Cursors :
                fromMillis(c) < Cur.modified_at =>
                  \A ns \in GetNoteChangesSince(notes', push.user, c) :
                     \E k \in 1 .. Len(ns) : ns[k] = Cur
        /\ TodoAccepted =>
             \A c \in Cursors :
                fromMillis(c) < Cur.modified_at =>
                  \A ts \in GetTodoChangesSince(todos', push.user, c) :
                     \E k \in 1 .. Len(ts) : ts[k] = Cur
      ]_vars

\* a time.Time after a trip through a millisecond column
Stored(t) == fromMillis(toMillis(t))

StoredNull(t) == IF t = Nil THEN Nil ELSE <<Stored(t[1])>>

\* C10 (amended): when a push of a record is accepted, a following pull by
\* the same user with any cursor smaller than the record's modified_at cut
\* to whole milliseconds returns the record with id, user_id (the
\* authenticated user), payload and modified_by_device equal to the pushed
\* values, modified_at, deleted_at and a todo's due_date equal to the pushed
\* values cut to whole milliseconds, and created_at equal to the pushed
\* value cut to whole milliseconds if the push inserted the record and to
\* the created_at already stored if it updated it.
C10_RoundTrip ==
    [][ /\ NoteAccepted =>
             \A c \in Cursors :
                c < toMillis(Cur.modified_at) =>
                  \A ns \in GetNoteChangesSince(notes', push.user, c) :
                     \E k \in 1 .. Len(ns) :
                        ns[k] = [Cur EXCEPT
                                   !.modified_at = Stored(@),
                                   !.deleted_at = StoredNull(@),
                                   !.created_at =
                                      IF Cur.id \in DOMAIN notes
                                      THEN fromMillis(notes[Cur.id].created_at)
                                      ELSE Stored(@)]
        /\ TodoAccepted =>
             \A c \in Cursors :
                c < toMillis(Cur.modified_at) =>
                  \A ts \in GetTodoChangesSince(todos', push.user, c) :
                     \E k \in 1 .. Len(ts) :
                        ts[k] = [Cur EXCEPT
                                   !.modified_at = Stored(@),
                                   !.deleted_at = StoredNull(@),
                                   !.due_date = StoredNull(@),
                                   !.created_at =
                                      IF Cur.id \in DOMAIN todos
                                      THEN fromMillis(todos[Cur.id].created_at)
                                      ELSE Stored(@)]
      ]_vars

\* a push has turned a stored note into a tombstone, the note keeps a
\* created_at that is not the pushed one, and the pull with the cursor just
\* below its modified_at returns the tombstone
C10_Witness ==
    /\ push.pc = "notes" /\ push.last = "accepted"
    /\ Cur.id \in DOMAIN notes
    /\ notes[Cur.id].deleted_at # Nil
    /\ notes[Cur.id].created_at # toMillis(Cur.created_at)
    /\ notes[Cur.id].modified_at = toMillis(Cur.modified_at)
    /\ \A ns \in GetNoteChangesSince(notes, push.user,
                                     notes[Cur.id].modified_at - 1) :
          /\ Len(ns) = 1
          /\ ns[1].id = Cur.id /\ ns[1].title = Cur.title
          /\ ns[1].deleted_at = StoredNull(Cur.deleted_at)
          /\ ns[1].created_at # Cur.created_at

\* the stored rows whose id has a history of accepted pushes
Pushed(tbl) == { id \in DOMAIN tbl : maxAccepted[id] # Nil }

\* after a push step no stored modified_at is smaller than before
PushKeepsOrder ==
    /\ \A id \in DOMAIN notes : notes'[id].modified_at >= notes[id].modified_at
    /\ \A id \in DOMAIN todos : todos'[id].modified_at >= todos[id].modified_at

\* C3 as stated: after any sequence of pushes of a record id by its owner
\* the persisted modified_at equals the maximum of the modified_at values
\* of the pushes counted as accepted, and after each push the stored
\* modified_at is greater than or equal to what it was before.
C3_PersistedIsMaxAccepted_Original ==
    /\ [](/\ \A id \in Pushed(notes) :
               scanNote(notes[id]).modified_at = maxAccepted[id][1]
          /\ \A id \in Pushed(todos) :
               scanTodo(todos[id]).modified_at = maxAccepted[id][1])
    /\ [][PushKeepsOrder]_vars

\* C3 (amended): after any sequence of pushes of a record id by its owner
\* the persisted modified_at equals the maximum of the modified_at values
\* of the pushes counted as accepted, cut to whole milliseconds; every
\* stored record has such a push; and after each push the stored
\* modified_at is greater than or equal to what it was before.
C3_PersistedIsMaxAccepted ==
    /\ [](/\ \A id \in DOMAIN notes :
               /\ maxAccepted[id] # Nil
               /\ notes[id].modified_at = toMillis(maxAccepted[id][1])
          /\ \A id \in DOMAIN todos :
               /\ maxAccepted[id] # Nil
               /\ todos[id].modified_at = toMillis(maxAccepted[id][1]))
    /\ [][PushKeepsOrder]_vars

\* a push has had its first todo accepted at an instant inside a
\* millisecond and its second one, older, reported as a conflict; the
\* stored modified_at is the accepted instant cut to whole milliseconds
C3_Witness ==
    /\ push.pc = "todos" /\ push.last = "conflict"
    /\ push.n = 2 /\ push.accepted = 1 /\ Len(push.conflicts) = 1
    /\ Cur.id \in DOMAIN todos
    /\ Cur.modified_at < maxAccepted[Cur.id][1]
    /\ fromMillis(todos[Cur.id].modified_at) < maxAccepted[Cur.id][1]
    /\ todos[Cur.id].modified_at = toMillis(maxAccepted[Cur.id][1])
    /\ todos[Cur.id].content # Cur.content

\* the ids of the records of a response list
ResponseIds(list) == { list[k].id : k \in 1 .. Len(list) }

\* a response list holds each of its records once and is ordered by
\* modified_at ascending
OrderedOnce(list) ==
    /\ Cardinality(ResponseIds(list)) = Len(list)
    /\ \A i, j \in 1 .. Len(list) :
          i < j => list[i].modified_at <= list[j].modified_at

\* C7: the pull changes_since(U, T) returns exactly U's notes and todos
\* whose stored modified_at is strictly greater than T: soft-deleted
\* records are included, a record with modified_at equal to T is excluded,
\* no record of another user is included, and each list is ordered by
\* modified_at ascending.
C7_ChangesSinceExact ==
    pull.pc = "done" =>
      /\ ResponseIds(pull.notes) =
           { id \in DOMAIN notes :
               /\ notes[id].user_id = pull.user
               /\ notes[id].modified_at >= pull.since + 1 }
      /\ \A k \in 1 .. Len(pull.notes) :
            pull.notes[k] = scanNote(notes[pull.notes[k].id])
      /\ OrderedOnce(pull.notes)
      /\ ResponseIds(pull.todos) =
           { id \in DOMAIN todos :
               /\ todos[id].user_id = pull.user
               /\ todos[id].modified_at >= pull.since + 1 }
      /\ \A k \in 1 .. Len(pull.todos) :
            pull.todos[k] = scanTodo(todos[pull.todos[k].id])
      /\ OrderedOnce(pull.todos)

\* a pull has returned a live note and then a tombstone of the same user,
\* the one with the smaller modified_at first, for a cursor below both
C7_Witness ==
    /\ pull.pc = "done" /\ pull.user = Owner
    /\ Len(pull.notes) = 2
    /\ pull.notes[1].deleted_at = Nil
    /\ pull.notes[2].deleted_at # Nil
    /\ pull.notes[1].modified_at < pull.notes[2].modified_at
    /\ fromMillis(pull.since) < pull.notes[1].modified_at

\* a pull has left out a note whose modified_at equals the cursor and a
\* note of the other user
C7_WitnessExcluded ==
    /\ pull.pc = "done" /\ pull.user = Owner
    /\ Len(pull.notes) = 0
    /\ \E id \in DOMAIN notes :
          notes[id].user_id = Owner /\ notes[id].modified_at = pull.since
    /\ \E id \in DOMAIN notes :
          notes[id].user_id # Owner /\ notes[id].modified_at > pull.since

\* C8: the sync_timestamp of a pull response is greater than or equal to
\* the modified_at of every note and todo in that response.
C8_SyncTimestampCoversRecords ==
    pull.pc = "done" =>
      /\ \A k \in 1 .. Len(pull.notes) :
            toMillis(pull.notes[k].modified_at) <= pull.sync_timestamp
      /\ \A k \in 1 .. Len(pull.todos) :
            toMillis(pull.todos[k].modified_at) <= pull.sync_timestamp

\* both racing workers have returned from the upsert
RaceOver == \A w \in RaceWorkers : workers[w].pc = "done"

\* the table the race is about holds the version of worker w
RaceStored(w) ==
    IF workers[w].kind = "note"
    THEN "n1" \in DOMAIN notes /\ notes["n1"] = noteRow(workers[w].n)
    ELSE "t1" \in DOMAIN todos /\ todos["t1"] = todoRow(workers[w].n)

\* C5: when two request workers concurrently push versions of the same
\* record id for the same user with timestamps t1 < t2, in every
\* interleaving of their read and write steps the record finally stored is
\* the version with timestamp t2 (created_at apart, which an update
\* keeps), and no step of the race lowers a stored modified_at.
C5_RaceStoresNewest ==
    /\ [](RaceOver =>
            IF workers[2].kind = "note"
            THEN /\ "n1" \in DOMAIN notes
                 /\ MutableNote(notes["n1"]) = MutableNote(noteRow(workers[2].n))
            ELSE /\ "t1" \in DOMAIN todos
                 /\ MutableTodo(todos["t1"]) = MutableTodo(todoRow(workers[2].n)))
    /\ [][PushKeepsOrder]_vars

\* C9: in a chain of pulls, each with the sync_timestamp of the previous
\* one as since, no write with a server-stamped modified_at is missed:
\* between two pulls, every stored record of the user whose modified_at is
\* less than or equal to the cursor the client holds has been returned by
\* a pull of the chain.
C9_NoChangeMissed ==
    chain.pc = "idle" =>
      /\ \A id \in DOMAIN notes :
            (notes[id].user_id = Owner /\ notes[id].modified_at <= chain.since)
               => scanNote(notes[id]) \in chain.seen
      /\ \A id \in DOMAIN todos :
            (todos[id].user_id = Owner /\ todos[id].modified_at <= chain.since)
               => scanTodo(todos[id]) \in chain.seen

\* the server and every device hold the same version of every note
Converged ==
    \A d \in ConvDevices :
       /\ DOMAIN devices[d].notes = DOMAIN notes
       /\ \A id \in DOMAIN notes : devices[d].notes[id] = scanNote(notes[id])

\* C6: when every device keeps running the sync round and the devices stop
\* editing, the server and every device eventually hold, for each record,
\* the same version for good (the one with the greatest modified_at).
C6_Convergence == <>[]Converged

\* the conflict entry that reports the stored copy of record rec
CurrentCopy(kind, rec) ==
    IF kind = "note"
    THEN NoteConflict(rec.id, GetNoteAny(notes, rec.id, replay.user))
    ELSE TodoConflict(rec.id, GetTodoAny(todos, rec.id, replay.user))

\* the conflicts list that reports every record of the replayed request
\* with its stored copy
AllConflicts ==
    [k \in 1 .. Len(replay.req.notes) + Len(replay.req.todos) |->
        IF k <= Len(replay.req.notes)
        THEN CurrentCopy("note", replay.req.notes[k])
        ELSE CurrentCopy("todo", replay.req.todos[k - Len(replay.req.notes)])]

\* C11: pushing a batch (records with arbitrary modified_at values, values
\* inside a millisecond included) that the server answers with 200 and
\* then pushing the identical batch again with no write in between yields
\* accepted = 0 on the second push, reports every record of the batch as a
\* conflict carrying the current server copy, and leaves the store exactly
\* as it was after the first push.
C11_PushIdempotent ==
    (replay.pc = "second" /\ replay.first.status = 200) =>
       /\ replay.second.status = 200
       /\ replay.second.accepted = 0
       /\ replay.second.conflicts = AllConflicts
       /\ notes = replay.after.notes
       /\ todos = replay.after.todos

C13_RotationAtMostOnce ==
    \A v, w \in DOMAIN sessions :
       ( /\ v # w
         /\ sessions[v].op = "refresh" /\ sessions[w].op = "refresh"
         /\ sessions[v].pc = "done" /\ sessions[w].pc = "done"
         /\ sessions[v].status = 200 /\ sessions[w].status = 200 )
       => sessions[v].token # sessions[w].token

\* C14: a refresh request presenting a valid token ends in exactly one of
\* two outcomes, whatever single database statement fails: (a) the
\* presented token's record is deleted, a new record is stored and 200 is
\* returned, or (b) the presented token's record is still stored, no new
\* record exists and an error is returned.
C14_RotationAllOrNothing ==
    \A w \in DOMAIN sessions :
       ( /\ sessions[w].op = "refresh" /\ sessions[w].pc = "done"
         /\ sessions[w].stored # Nil )
       => LET old == sessions[w].stored[1].id IN
          \/ /\ sessions[w].status = 200
             /\ DOMAIN refresh_tokens =
                  (DOMAIN before \ {old})
                    \cup {sessions[w].pair[1].refresh_token.jti}
             /\ sessions[w].pair[1].refresh_token.jti \notin DOMAIN before
          \/ /\ sessions[w].status # 200
             /\ refresh_tokens = before

\* C15: once a logout request of user U has returned 204, the store holds
\* no refresh token record of U that stems from a login or refresh request
\* which was under way (had read the store) when the logout deleted U's
\* records, under any interleaving of the logout with refresh and login
\* requests of U's devices.
C15_LogoutInvalidatesAll ==
    \A w \in DOMAIN sessions :
       ( /\ sessions[w].op = "logout" /\ sessions[w].pc = "done"
         /\ sessions[w].status = 204 )
       => \A id \in DOMAIN refresh_tokens :
             ~ ( /\ refresh_tokens[id].user_id = sessions[w].userID
                 /\ id \in stale )

\* what the presented header and the time of the request say: a token
\* signed by the server, of type access, with exp in the future and a
\* non-empty sub
Admissible(header, t) ==
    /\ header # Nil
    /\ header[1].key = "server"
    /\ header[1].type = "access"
    /\ t < header[1].exp * MillisPerSecond
    /\ header[1].sub # ""

\* C16: whether the auth middleware admits a request depends only on the
\* presented token (valid signature, type = access, exp in the future,
\* non-empty sub) and the current time, never on the store: in every store
\* state the requests behind the middleware are admitted exactly when the
\* token and the time say so, so an access token issued before a logout is
\* still admitted until its exp.
C16_AccessStateless ==
    \A w \in DOMAIN sessions :
       ( sessions[w].op \in {"request", "logout"} /\ sessions[w].pc = "done" )
       => ( sessions[w].status # 401
              <=> Admissible(sessions[w].token, sessions[w].at) )

\* a protected request has been admitted with an access token of a user
\* whose refresh token records are all gone, though the user was handed a
\* refresh token: a logout has deleted them
C16_Witness ==
    \E w \in DOMAIN sessions :
       /\ sessions[w].op = "request" /\ sessions[w].pc = "done"
       /\ sessions[w].status = 200
       /\ \A id \in DOMAIN refresh_tokens :
             refresh_tokens[id].user_id # sessions[w].userID
       /\ \E t \in handed :
             t.type = "refresh" /\ t.sub = sessions[w].userID

\* a protected request has been rejected because the access token, good
\* until then, had reached its exp
C16_WitnessExpired ==
    \E w \in DOMAIN sessions :
       /\ sessions[w].op = "request" /\ sessions[w].pc = "done"
       /\ sessions[w].status = 401
       /\ sessions[w].token # Nil
       /\ sessions[w].token[1] \in handed
       /\ sessions[w].token[1].type = "access"
       /\ sessions[w].at = sessions[w].token[1].exp * MillisPerSecond

\* the rows of tbl that belong to userID: the table as it would be if the
\* records of the other users did not exist
Own(tbl, userID) ==
    [i \in { j \in DOMAIN tbl : tbl[j].user_id = userID } |-> tbl[i]]

\* the responses a read request can get over the tables ntbl and ttbl
ReadResponses(op, userID, id, args, clock, ntbl, ttbl) ==
    CASE op = "GET /notes/{id}" -> handleGetNoteResponses(ntbl, userID, id)
      [] op = "GET /notes" -> handleListNotesResponses(ntbl, userID, args)
      [] op = "GET /notes/search" -> handleSearchNotesResponses(ntbl, userID, args)
      [] op = "GET /todos/{id}" -> handleGetTodoResponses(ttbl, userID, id)
      [] op = "GET /todos" -> handleListTodosResponses(ttbl, userID, args)
      [] op = "GET /todos/overdue" ->
            handleGetOverdueTodosResponses(ttbl, userID, clock)

ReadOps ==
    {"GET /notes/{id}", "GET /notes", "GET /notes/search", "GET /todos/{id}",
     "GET /todos", "GET /todos/overdue"}

\* C17: every read made with a user as principal is answered exactly as
\* if the notes and todos of the other users did not exist: the response
\* of GET by id, list, search and overdue is one the request gets over the
\* user's own rows alone (so GET of another user's record is the 404 of an
\* unknown id, and a list neither holds nor counts such a record), and the
\* lists of a sync-changes response are lists the user's own rows give.
C17_TenantIsolation ==
    /\ read.op \in ReadOps =>
          [status |-> read.status, body |-> read.body]
             \in ReadResponses(read.op, read.user, read.id, read.args, read.at,
                               Own(notes, read.user), Own(todos, read.user))
    /\ read.op = "GET /sync/changes" =>
          /\ read.body.notes
                \in GetNoteChangesSince(Own(notes, read.user), read.user,
                                        read.args.since)
          /\ read.body.todos
                \in GetTodoChangesSince(Own(todos, read.user), read.user,
                                        read.args.since)

\* GET /notes/{id} for a live note of another user was answered 404
C17_Witness ==
    /\ read.op = "GET /notes/{id}"
    /\ read.id \in DOMAIN notes
    /\ notes[read.id].user_id # read.user
    /\ notes[read.id].deleted_at = Nil
    /\ read.status = 404

\* a list of notes counted the one note of the user while the table held
\* a live note of another user
C17_WitnessList ==
    /\ read.op = "GET /notes" /\ read.body.total = 1
    /\ \E i \in DOMAIN notes :
          notes[i].user_id # read.user /\ notes[i].deleted_at = Nil

\* the overdue list of a user was empty while a todo of another user was
\* overdue
C17_WitnessOverdue ==
    /\ read.op = "GET /todos/overdue" /\ Len(read.body.items) = 0
    /\ \E i \in DOMAIN todos :
          /\ todos[i].user_id # read.user /\ todos[i].deleted_at = Nil
          /\ ~todos[i].completed /\ todos[i].due_date # Nil
          /\ todos[i].due_date[1] < read.at

\* a sync-changes response of a user left out a record of another user
\* that is newer than the cursor
C17_WitnessChanges ==
    /\ read.op = "GET /sync/changes"
    /\ \E i \in DOMAIN todos :
          todos[i].user_id # read.user /\ todos[i].modified_at > read.args.since

\* every row of tbl is in tbl2 with its user_id, and unchanged when it
\* belongs to another user than userID
Kept(tbl, tbl2, userID) ==
    \A i \in DOMAIN tbl :
       /\ i \in DOMAIN tbl2
       /\ tbl2[i].user_id = tbl[i].user_id
       /\ tbl[i].user_id # userID => tbl2[i] = tbl[i]

\* C18: no request (POST, PUT, DELETE, a sync push carrying the same id,
\* whatever user_id its body states, or a read) removes a note or todo row
\* or changes its user_id, and a request changes no field of a note or
\* todo that belongs to another user than the one it is authenticated as.
C18_MutatedOnlyByOwner ==
    [][ /\ Kept(notes, notes', read'.user)
        /\ Kept(todos, todos', read'.user) ]_vars

\* PUT /notes/{id} for a live note of another user was answered 404
C18_Witness ==
    /\ read.op = "PUT /notes/{id}"
    /\ read.id \in DOMAIN notes
    /\ notes[read.id].user_id # read.user
    /\ notes[read.id].deleted_at = Nil
    /\ read.status = 404

\* DELETE /todos/{id} for a live todo of another user was answered 404
C18_WitnessDelete ==
    /\ read.op = "DELETE /todos/{id}"
    /\ read.id \in DOMAIN todos
    /\ todos[read.id].user_id # read.user
    /\ todos[read.id].deleted_at = Nil
    /\ read.status = 404

\* a push has carried a newer version of a note that belongs to another
\* user, the body naming that user
C18_WitnessPush ==
    /\ read.op = "POST /sync/push" /\ read.req.notes # << >>
    /\ LET in == read.req.notes[1] IN
       /\ in.id \in DOMAIN notes
       /\ notes[in.id].user_id # read.user
       /\ notes[in.id].user_id = in.user_id
       /\ toMillis(in.modified_at) > notes[in.id].modified_at

\* the step serves a push request
PushServed ==
    /\ read'.op = "POST /sync/push"
    /\ read' # read \/ notes' # notes \/ todos' # todos

\* the pushed records whose id has no record of the principal were
\* inserted for the principal and the push counted them
InsertedAbsent ==
    LET u == read'.user
        ns == { k \in 1 .. Len(read'.req.notes) :
                  GetNoteAny(notes, read'.req.notes[k].id, u) = Nil }
        ts == { k \in 1 .. Len(read'.req.todos) :
                  GetTodoAny(todos, read'.req.todos[k].id, u) = Nil }
    IN /\ \A k \in ns :
             LET in == read'.req.notes[k] IN
             /\ in.id \in DOMAIN notes'
             /\ notes'[in.id] = noteRow([in EXCEPT !.user_id = u])
       /\ \A k \in ts :
             LET in == read'.req.todos[k] IN
             /\ in.id \in DOMAIN todos'
             /\ todos'[in.id] = todoRow([in EXCEPT !.user_id = u])
       /\ ns \cup ts # {} =>
             /\ read'.status = 200
             /\ read'.body.accepted = Cardinality(ns) + Cardinality(ts)

\* C19: a pushed record whose id has no record belonging to the
\* authenticated user is inserted with user_id set to that user and counted
\* as accepted, in every store state, and the response of a push is the
\* response the same push gets over the user's own rows alone, so it does
\* not depend on the records of the other users (a record of another user
\* under the pushed id included).
C19_PushInsertsAndIgnoresOthers ==
    [][ PushServed =>
          /\ InsertedAbsent
          /\ read'.body = SyncPush(Own(notes, read'.user), Own(todos, read'.user),
                                   read'.user, read'.req).response ]_vars

\* the table without the rows of ids: the table as it would be if the
\* records had been removed
Without(tbl, ids) == [i \in DOMAIN tbl \ ids |-> tbl[i]]

\* the tombstone of the soft-deleted id is stored
Tombstone(id) ==
    \/ id \in DOMAIN notes /\ notes[id].deleted_at # Nil
          /\ GetNoteAny(notes, id, notes[id].user_id)[1].deleted_at # Nil
    \/ id \in DOMAIN todos /\ todos[id].deleted_at # Nil
          /\ GetTodoAny(todos, id, todos[id].user_id)[1].deleted_at # Nil

\* list holds the record id with deleted_at set
HoldsTombstone(list, id) ==
    \E k \in 1 .. Len(list) : list[k].id = id /\ list[k].deleted_at # Nil

\* the sync delta of the owner, for a cursor below the deletion time,
\* holds the soft-deleted id with deleted_at set
InDelta(id) ==
    /\ ( id \in DOMAIN notes /\ notes[id].user_id = read.user
           /\ read.args.since < notes[id].modified_at )
        => HoldsTombstone(read.body.notes, id)
    /\ ( id \in DOMAIN todos /\ todos[id].user_id = read.user
           /\ read.args.since < todos[id].modified_at )
        => HoldsTombstone(read.body.todos, id)

\* the step serves a PUT or a DELETE on a record that was soft-deleted
AgainServed ==
    /\ read'.op \in {"PUT /notes/{id}", "DELETE /notes/{id}", "PUT /todos/{id}",
                     "DELETE /todos/{id}"}
    /\ read'.id \in read.gone
    /\ read' # read

\* C20: after a REST DELETE of a visible note or todo returned 204, and
\* until a push writes the record again, GET by id, list, search and
\* overdue are answered as if the record had been removed (GET returns
\* 404, the lists neither hold nor count it), the store still holds the
\* record with deleted_at set and the sync delta of its owner returns it
\* so for every cursor below the deletion time, and a second DELETE or a
\* PUT on it returns 404.
C20_SoftDeleteVisibility ==
    [][ /\ \A id \in read'.gone : Tombstone(id)'
        /\ read'.op \in ReadOps =>
              [status |-> read'.status, body |-> read'.body]
                 \in ReadResponses(read'.op, read'.user, read'.id, read'.args,
                                   read'.at, Without(notes', read'.gone),
                                   Without(todos', read'.gone))
        /\ read'.op = "GET /sync/changes" => \A id \in read'.gone : InDelta(id)'
        /\ AgainServed => read'.status = 404 ]_vars

\* GET /notes/{id} by the owner of a note that a DELETE answered 204 for
\* was answered 404
C20_Witness ==
    /\ read.op = "GET /notes/{id}" /\ read.id \in read.gone
    /\ notes[read.id].user_id = read.user
    /\ read.status = 404

\* a list of the owner's todos counted none while the soft-deleted todo is
\* the owner's
C20_WitnessList ==
    /\ read.op = "GET /todos" /\ read.body.total = 0
    /\ \E id \in read.gone : id \in DOMAIN todos /\ todos[id].user_id = read.user

\* search and overdue were served for the owner of a soft-deleted record
\* that matches them
C20_WitnessSearch ==
    /\ read.op = "GET /notes/search" /\ read.args.q = "_"
    /\ \E id \in read.gone : id \in DOMAIN notes /\ notes[id].user_id = read.user

C20_WitnessOverdue ==
    /\ read.op = "GET /todos/overdue"
    /\ \E id \in read.gone :
          /\ id \in DOMAIN todos /\ todos[id].user_id = read.user
          /\ ~todos[id].completed /\ todos[id].due_date # Nil
          /\ todos[id].due_date[1] < read.at

\* the sync delta of the owner held the soft-deleted note
C20_WitnessDelta ==
    /\ read.op = "GET /sync/changes"
    /\ \E id \in read.gone : HoldsTombstone(read.body.notes, id)

\* a second DELETE and a PUT by the owner were answered 404
C20_WitnessAgain ==
    /\ read.op = "DELETE /notes/{id}" /\ read.id \in read.gone
    /\ notes[read.id].user_id = read.user /\ read.status = 404

C20_WitnessPut ==
    /\ read.op = "PUT /todos/{id}" /\ read.id \in read.gone
    /\ todos[read.id].user_id = read.user /\ read.status = 404

\* the rows of tbl were modified at or after their creation
ModifiedSinceCreated(tbl) ==
    \A id \in DOMAIN tbl : tbl[id].modified_at >= tbl[id].created_at

\* the record the last request, a DELETE answered 204, has soft-deleted
\* carries deleted_at = modified_at
DeletedAtIsModifiedAt ==
    /\ ( read.op = "DELETE /notes/{id}" /\ read.status = 204 )
          => notes[read.id].deleted_at = <<notes[read.id].modified_at>>
    /\ ( read.op = "DELETE /todos/{id}" /\ read.status = 204 )
          => todos[read.id].deleted_at = <<todos[read.id].modified_at>>

\* C21: in every reachable state, after any sequence of REST writes and
\* sync pushes, every stored note and todo has modified_at >= created_at,
\* and in the state right after a REST delete the deleted record's
\* deleted_at equals its modified_at.
C21_TimestampInvariant ==
    /\ ModifiedSinceCreated(notes)
    /\ ModifiedSinceCreated(todos)
    /\ DeletedAtIsModifiedAt

\* the body of a push response carries a verdict on every record of req
\* (status 200) or on none of them (status 500, the error body)
AllOrError(r, req) ==
    \/ /\ r.status = 200
       /\ r.accepted + Len(r.conflicts) = Len(req.notes) + Len(req.todos)
    \/ /\ r.status = 500
       /\ r.accepted = 0
       /\ r.conflicts = << >>

\* C22: a push is answered either 200 with accepted + number of conflicts =
\* number of records, or 500 with the error body and no per-record verdict;
\* and when a store error has interrupted the batch at any record, the
\* retry of the whole batch over a database that answers leaves the tables
\* as one uninterrupted push of the batch would have left them.
C22_PushAllOrErrorAndRetry ==
    /\ replay.pc \in {"first", "done", "second"} => AllOrError(replay.first, replay.req)
    /\ replay.pc = "second" =>
          /\ AllOrError(replay.second, replay.req)
          /\ notes = replay.whole.notes
          /\ todos = replay.whole.todos

\* a push of two records was interrupted at the second one after the first
\* had been written, and the retry was answered 200 with one record
\* accepted and one in the conflicts list
C22_Witness ==
    /\ replay.pc = "second"
    /\ replay.fail = 2
    /\ replay.first.status = 500
    /\ replay.second.status = 200
    /\ replay.second.accepted = 1
    /\ Len(replay.second.conflicts) = 1
    /\ replay.before.notes # replay.whole.notes

\* the database failed the first upsert and the retry went through
C22_WitnessFirstRecord ==
    /\ replay.pc = "second"
    /\ replay.fail = 1
    /\ replay.second.status = 200
    /\ replay.second.accepted = Len(replay.req.notes) + Len(replay.req.todos)

\* the login request req is well formed: after normalisation no field is
\* empty
WellFormedLogin(req) ==
    /\ TrimSpace(ToLower(req.email)) # << >>
    /\ req.password # << >>
    /\ req.device_id # ""

\* no registered user has the email of req
UnknownEmail(req) ==
    \A i \in DOMAIN users : users[i].email # TrimSpace(ToLower(req.email))

\* a registered user has the email of req, with another password
WrongPassword(req) ==
    \E i \in DOMAIN users :
        /\ users[i].email = TrimSpace(ToLower(req.email))
        /\ users[i].password_hash # <<"bcrypt", req.password>>

\* C23: a well-formed login request with an unknown email and one with a
\* known email and a wrong password get the same response, 401 with the body
\* "invalid credentials", and neither creates a refresh token record.
C23_NoUserEnumeration ==
    [][ ( /\ read'.op = "POST /auth/login"
          /\ WellFormedLogin(read'.req)
          /\ UnknownEmail(read'.req) \/ WrongPassword(read'.req) )
        => /\ read'.status = 401
           /\ read'.body = ErrorBody("invalid credentials")
           /\ refresh_tokens' = refresh_tokens ]_vars

\* with a user registered, a login with an email nobody has was answered
C23_Witness ==
    /\ read.op = "POST /auth/login"
    /\ users # << >>
    /\ WellFormedLogin(read.req)
    /\ UnknownEmail(read.req)
    /\ read.status = 401

\* a login with a registered email and a wrong password was answered
C23_WitnessWrongPassword ==
    /\ read.op = "POST /auth/login"
    /\ WellFormedLogin(read.req)
    /\ WrongPassword(read.req)
    /\ read.status = 401
    /\ refresh_tokens # << >>

\* the request of session s carries a token of the kind the route does not
\* take: a refresh token as Bearer credential of a protected route, or an
\* access token in the body of a refresh request
OtherKind(s) ==
    /\ s.token # Nil
    /\ \/ s.op \in {"request", "logout"} /\ s.token[1].type = "refresh"
       \/ s.op = "refresh" /\ s.token[1].type = "access"

\* C24: a refresh token presented as Bearer credential on a protected route
\* is answered 401, and an access token presented to the refresh endpoint is
\* answered 401; neither request deletes or creates a refresh token record.
C24_TokenKindsNotInterchangeable ==
    [][ \A w \in DOMAIN sessions :
          ( sessions'[w] # sessions[w] /\ OtherKind(sessions'[w]) )
          => /\ sessions'[w].pc = "done"
             /\ sessions'[w].status = 401
             /\ refresh_tokens' = refresh_tokens ]_vars

\* a refresh token the server signed, not expired and on record, was
\* presented on a protected route and answered 401
C24_Witness ==
    \E w \in DOMAIN sessions :
        /\ sessions[w].op = "request"
        /\ sessions[w].token # Nil
        /\ sessions[w].token[1].type = "refresh"
        /\ ParseWithClaims(sessions[w].token[1])
        /\ GetRefreshTokenByHash(refresh_tokens, HashToken(sessions[w].token[1])) # Nil
        /\ sessions[w].status = 401

\* an access token the server signed, not expired, was presented to the
\* refresh endpoint and answered 401 while records were stored
C24_WitnessRefresh ==
    \E w \in DOMAIN sessions :
        /\ sessions[w].op = "refresh"
        /\ sessions[w].token[1].type = "access"
        /\ ParseWithClaims(sessions[w].token[1])
        /\ sessions[w].status = 401
        /\ refresh_tokens # << >>

\* a refresh token the server signed was presented to logout
C24_WitnessLogout ==
    \E w \in DOMAIN sessions :
        /\ sessions[w].op = "logout"
        /\ sessions[w].token # Nil
        /\ sessions[w].token[1].type = "refresh"
        /\ ParseWithClaims(sessions[w].token[1])
        /\ sessions[w].status = 401
        /\ refresh_tokens # << >>

\* C25: for every limiter key, however the credential requests and the
\* cleanup interleave, at most 20 requests are let through inside one
\* window; the window starts at the first request seen with no window or an
\* expired one and its reset time is not moved by later requests; a request
\* beyond the 20th before the reset is answered 429 without the handler
\* running, and the first request after the reset is let through and opens
\* a new window.
C25_FixedWindow ==
    /\ \A key \in DOMAIN limiter.byKey :
          /\ limiter.byKey[key].through <= authLimit
          /\ limiter.byKey[key].through =
                IF limiter.byKey[key].seen <= authLimit
                THEN limiter.byKey[key].seen ELSE authLimit
          /\ IF key \in DOMAIN limiter.windows
             THEN /\ limiter.windows[key].resetAt = limiter.byKey[key].resetAt
                  /\ limiter.windows[key].count = limiter.byKey[key].seen
             ELSE limiter.clock > limiter.byKey[key].resetAt
    /\ \A w \in LimiterWorkers :
          /\ limiter.reqs[w].pc = "limited" => ~limiter.reqs[w].ran
          /\ limiter.reqs[w].status = 429 => ~limiter.reqs[w].ran
          /\ limiter.reqs[w].ran => limiter.reqs[w].status # 429

\* a key has had 20 requests let through in its window and a later one of
\* the window answered 429
C25_Witness ==
    /\ \E w \in LimiterWorkers : limiter.reqs[w].status = 429
    /\ \E key \in DOMAIN limiter.byKey :
          /\ limiter.byKey[key].through = authLimit
          /\ limiter.byKey[key].seen > authLimit

\* after a window with rejected requests, a request after the reset has
\* opened a new window and was let through
C25_WitnessNewWindow ==
    \E w \in LimiterWorkers, v \in LimiterWorkers :
        /\ limiter.reqs[w].status = 429
        /\ limiter.reqs[v].ran
        /\ \E key \in DOMAIN limiter.windows :
              /\ limiter.windows[key].count = 1
              /\ limiter.windows[key].resetAt > authPeriod
              /\ limiter.byKey[key].through = 1

\* C26: the credential requests of one client IP address, whatever their
\* source port or connection, are counted in one window, so that at most 20
\* of them are let through per window.
C26_PerClientIP ==
    \A ip \in DOMAIN limiter.byIP : limiter.byIP[ip].through <= authLimit

\* the number a parameter value of the requests denotes, Nil when the value
\* is missing or is not the decimal notation of an integer
Denoted(param) ==
    CASE param = <<"0">> -> <<0>>
      [] param = <<"1">> -> <<1>>
      [] param = <<"2">> -> <<2>>
      [] param = <<"9">> -> <<9>>
      [] param = <<"2", "0", "0">> -> <<200>>
      [] param = <<"2", "0", "1">> -> <<201>>
      [] param = <<"9", "9", "9">> -> <<999>>
      [] param = <<"-", "1">> -> <<-1>>
      [] param = <<"+", "2">> -> <<2>>
      [] OTHER -> Nil

\* the routes that answer with a page
PagedOps == {"GET /notes", "GET /notes/search", "GET /todos"}

\* the last request was answered with a page
PageServed == read.op \in PagedOps /\ read.status = 200

\* the visible records the last request asks about: the user's live notes
\* or todos, for a search those whose title or content contains q
Visible ==
    CASE read.op = "GET /notes" -> ListedIds(notes, read.user)
      [] read.op = "GET /todos" -> ListedIds(todos, read.user)
      [] read.op = "GET /notes/search" ->
            { i \in ListedIds(notes, read.user) :
                LET pattern == <<"%">> \o Chars(read.args.q) \o <<"%">> IN
                \/ Like(Chars(notes[i].title), pattern)
                \/ Like(Chars(notes[i].content), pattern) }

C27_WitnessPastEnd ==
    /\ PageServed
    /\ read.body.offset >= 2
    /\ read.body.total = 2
    /\ read.body.items = << >>

\* an unparseable limit and a negative offset were replaced
C27_WitnessDefaults ==
    /\ PageServed
    /\ \/ read.args.limit = <<"a", "b", "c">> /\ read.body.limit = 50
       \/ read.args.offset = <<"-", "1">> /\ read.body.offset = 0
    /\ read.body.total > 0

\* C28: for every value of the limit parameter of the list and search
\* endpoints, the limit that is passed to the store and echoed in the
\* response is between 1 and 200 inclusive.
C28_PageSizeInRange ==
    PageServed => read.body.limit \in 1 .. 200

\* the body of the last request, a REST write, breaks a validation rule: a
\* missing device_id, an over-long title or content, or a note type other
\* than note and todo_list
InvalidWrite ==
    \/ /\ read.op = "POST /notes"
       /\ \/ read.req.device_id = ""
          \/ RuneCountInString(read.req.title) > maxTitleLen
          \/ RuneCountInString(read.req.content) > maxContentLen
          \/ read.req.type \notin {"", "note", "todo_list"}
    \/ /\ read.op = "PUT /notes/{id}"
       /\ \/ read.req.device_id = ""
          \/ read.req.title # Nil /\ RuneCountInString(read.req.title[1]) > maxTitleLen
          \/ read.req.content # Nil
               /\ RuneCountInString(read.req.content[1]) > maxContentLen
          \/ read.req.type # Nil /\ read.req.type[1] \notin {"note", "todo_list"}
    \/ /\ read.op = "POST /todos"
       /\ \/ read.req.device_id = ""
          \/ RuneCountInString(read.req.content) > maxTodoContentLen
    \/ /\ read.op = "PUT /todos/{id}"
       /\ \/ read.req.device_id = ""
          \/ read.req.content # Nil
               /\ RuneCountInString(read.req.content[1]) > maxTodoContentLen

\* C29: a request that fails a validation rule is answered 400 before any
\* store operation, so in every store state (for example a PUT with an
\* invalid type, whether or not the note exists).
C29_ValidationFirst ==
    InvalidWrite => read.status = 400

\* the state of record id in table tbl
RecordState(tbl, id) ==
    IF id \notin DOMAIN tbl THEN "absent"
    ELSE IF tbl[id].deleted_at = Nil THEN "fresh" ELSE "tombstoned"

\* the state a pushed record has when it is inserted
PushedState(r) == IF r.deleted_at = Nil THEN "fresh" ELSE "tombstoned"

\* what the request recorded in rd may do to record id, which is row
\* old[id] of its table when the request arrives (kind names the table) and
\* row new[id] when it is answered
Transition(rd, kind, id, old, new) ==
    LET s == RecordState(old, id)
        t == RecordState(new, id)
        pushed == IF rd.op # "POST /sync/push" THEN << >>
                  ELSE IF kind = "note" THEN rd.req.notes ELSE rd.req.todos
        same == s = t /\ (s # "absent" => new[id] = old[id])
    IN /\ s # "absent" => t # "absent"
       /\ rd.op = "POST /sync/push" =>
            \/ same
            \/ \E i \in DOMAIN pushed :
                 /\ pushed[i].id = id
                 /\ t = PushedState(pushed[i])
                 /\ s # "absent" =>
                      pushed[i].modified_at > fromMillis(old[id].modified_at)
       /\ rd.op \in {"DELETE /notes/{id}", "DELETE /todos/{id}"} =>
            \/ same
            \/ rd.id = id /\ s = "fresh" /\ t = "tombstoned"
       /\ rd.op \in {"PUT /notes/{id}", "PUT /todos/{id}"} =>
            \/ same
            \/ rd.id = id /\ s = "fresh" /\ t = "fresh"

C30_WitnessTombstoned ==
    /\ read.op = "POST /sync/push" /\ read.status = 200
    /\ \E id \in TodoIds :
         /\ RecordState(replay.todos, id) = "fresh"
         /\ RecordState(todos, id) = "tombstoned"

\* a push with an older or equal timestamp has left a stored note as it was
C30_WitnessLost ==
    /\ read.op = "POST /sync/push" /\ read.status = 200
    /\ \E id \in NoteIds :
         /\ id \in DOMAIN replay.notes
         /\ read.req.notes # << >>
         /\ read.req.notes[1].id = id
         /\ read.req.notes[1].modified_at <= fromMillis(replay.notes[id].modified_at)
         /\ read.req.notes[1].title # replay.notes[id].title
         /\ notes[id] = replay.notes[id]

\* a REST delete has turned a fresh note into a tombstone, and a REST update
\* has written a fresh todo
C30_WitnessDelete ==
    /\ read.op = "DELETE /notes/{id}" /\ read.status = 204
    /\ RecordState(replay.notes, read.id) = "fresh"
    /\ RecordState(notes, read.id) = "tombstoned"

C30_WitnessUpdate ==
    /\ read.op = "PUT /todos/{id}" /\ read.status = 200
    /\ RecordState(replay.todos, read.id) = "fresh"
    /\ todos[read.id] # replay.todos[read.id]
    /\ RecordState(todos, read.id) = "fresh"

\* every stored note and todo is within the limits of the REST handlers
StoredWithinBounds ==
    /\ \A id \in DOMAIN notes :
         /\ RuneCountInString(notes[id].title) <= maxTitleLen
         /\ RuneCountInString(notes[id].content) <= maxContentLen
         /\ notes[id].type \in {"note", "todo_list"}
    /\ \A id \in DOMAIN todos :
         RuneCountInString(todos[id].content) <= maxTodoContentLen

\* POST /notes and PUT /notes/{id}: a title of 500 code points in an
\* otherwise valid body is accepted, one of 501 is answered 400
RestTitleBoundary ==
    /\ read.op = "POST /notes" /\ read.req.device_id # ""
         /\ read.req.type \in {"", "note", "todo_list"} =>
           /\ read.req.title = "T500" => read.status = 201
           /\ read.req.title = "T501" => read.status = 400
    /\ read.op = "PUT /notes/{id}" /\ read.req.device_id # ""
         /\ read.req.title # Nil =>
           /\ read.req.title[1] = "T501" => read.status = 400
           /\ read.req.title[1] = "T500" => read.status \in {200, 404}

\* C31: every stored note has a title of at most 500 code points, content
\* of at most 500,000 code points and type note or todo_list, and every
\* stored todo content of at most 10,000 code points, whichever write path
\* wrote the record; REST accepts a title of 500 and rejects one of 501.
C31_StoredFieldBounds ==
    StoredWithinBounds /\ RestTitleBoundary

\* the process serves on after a panic: the server is idle again
ServesOn == replay.panic => Idle

\* C32: when a handler panics while serving a request (model.NewID on a
\* failed random read), the process keeps serving and the client of the
\* failing request receives 500 with the JSON error envelope.
C32_PanicAnswered500 ==
    replay.panic =>
        /\ Idle
        /\ read.status = 500

\* the email as register and login look it up
NormalizedEmail(e) == TrimSpace(ToLower(e))

EmailsUnique ==
    \A i, j \in DOMAIN users :
        i # j => NormalizedEmail(users[i].email) # NormalizedEmail(users[j].email)

\* the INSERT of a registration whose normalised email is taken: 409, and
\* the table users stays as it is
TakenIsConflict(w) ==
    /\ replay[w].pc = "create" /\ replay'[w].pc = "done"
    /\ \E i \in DOMAIN users :
         users[i].email = NormalizedEmail(replay[w].req.email)
    => replay'[w].status = 409 /\ users' = users

\* a login whose email is, in any letter case, that of a user is decided by
\* the password of that user
LoginFindsUser ==
    /\ read' # read \/ refresh_tokens' # refresh_tokens
    /\ read'.op = "POST /auth/login"
    => \A i \in DOMAIN users :
           users[i].email = NormalizedEmail(read'.req.email) =>
               IF users[i].password_hash = <<"bcrypt", read'.req.password>>
               THEN read'.status = 200 /\ read'.body.items[1].user = i
               ELSE read'.status = 401

\* C33: no two users have the same trimmed, lowercased email, also after
\* concurrent registrations; a registration whose normalised email is taken
\* gets 409 and leaves the table users unchanged; login finds the user for
\* every letter-case variant of the registered email.
C33_EmailsUnique ==
    /\ []EmailsUnique
    /\ [][LoginFindsUser /\ \A w \in RegisterWorkers : TakenIsConflict(w)]_vars

\* two registrations of one email in different letter case ran at once: one
\* was answered 201, the other 409
C33_Witness ==
    \E v, w \in RegisterWorkers :
        /\ replay[v].status = 201 /\ replay[w].status = 409
        /\ replay[v].req.email # replay[w].req.email
        /\ NormalizedEmail(replay[v].req.email) = NormalizedEmail(replay[w].req.email)

\* both are about to insert the same email
C33_WitnessConcurrent ==
    /\ \A w \in RegisterWorkers : replay[w].pc = "create"
    /\ replay[1].user[1].email = replay[2].user[1].email
    /\ replay[1].req.email # replay[2].req.email

\* a login with the email in another letter case was answered 200
C33_WitnessLogin ==
    /\ read.op = "POST /auth/login" /\ read.status = 200
    /\ \A i \in DOMAIN users : users[i].email # read.req.email

\* device d holds a version of note id that no push has brought to the
\* server: the server has no such note, or an older one
Unpushed(d, id) ==
    /\ id \in DOMAIN devices[d].notes
    /\ \/ id \notin DOMAIN notes
       \/ notes[id].modified_at < toMillis(devices[d].notes[id].modified_at)

\* C34: whatever the fixed offset between a client's clock and the
\* server's, ahead or behind, every local edit is contained in the push of
\* some later sync round; no local edit stays unpushed for ever.
C34_SkewedEditsPushed ==
    \A d \in ConvDevices, id \in NoteIds : Unpushed(d, id) ~> ~Unpushed(d, id)

\* a request is answered in this step
Answered == read' # read \/ notes' # notes \/ todos' # todos

\* field f of the row is as it was unless the body carries it
KeptField(req, f, old, new) == req[f] = Nil => new[f] = old[f]

\* the row a PUT answered 200 leaves: old is the row before, new the row
\* after, fields the payload fields of its table
FramePut(req, fields, old, new) ==
    /\ \A f \in fields : KeptField(req, f, old, new)
    /\ \A f \in {"id", "user_id", "created_at", "deleted_at"} : new[f] = old[f]
    /\ new.deleted_at = Nil
    /\ new.modified_at = now
    /\ new.modified_by_device = req.device_id

\* C35: a PUT on a visible note or todo that returns 200 changes only the
\* fields present in the body, modified_at (the server clock) and
\* modified_by_device (the request's device_id); id, user_id, created_at,
\* deleted_at and the absent payload fields keep their values, every other
\* record is untouched, and a PUT answered 400 or 404 changes nothing.
C35_PartialUpdateFrame ==
    [][ Answered /\ read'.op \in {"PUT /notes/{id}", "PUT /todos/{id}"} =>
          LET id == read'.id
              req == read'.req
          IN /\ read'.status \in {400, 404} => notes' = notes /\ todos' = todos
             /\ read'.status = 200 /\ read'.op = "PUT /notes/{id}" =>
                  /\ todos' = todos
                  /\ id \in DOMAIN notes /\ notes[id].user_id = read'.user
                  /\ DOMAIN notes' = DOMAIN notes
                  /\ \A i \in DOMAIN notes \ {id} : notes'[i] = notes[i]
                  /\ FramePut(req, {"title", "content", "type"},
                              notes[id], notes'[id])
             /\ read'.status = 200 /\ read'.op = "PUT /todos/{id}" =>
                  /\ notes' = notes
                  /\ id \in DOMAIN todos /\ todos[id].user_id = read'.user
                  /\ DOMAIN todos' = DOMAIN todos
                  /\ \A i \in DOMAIN todos \ {id} : todos'[i] = todos[i]
                  /\ FramePut(req, {"content", "due_date", "completed",
                                    "note_id", "line_ref"},
                              todos[id], todos'[id]) ]_vars

\* a PUT that carries the content only was answered 200 and the note still
\* has the title and the type it was created with, written at a later time
C35_Witness ==
    /\ read.op = "PUT /notes/{id}" /\ read.status = 200
    /\ read.req.title = Nil /\ read.req.type = Nil /\ read.req.content # Nil
    /\ notes[read.id].content = read.req.content[1]
    /\ notes[read.id].title = ListCreateNote.title
    /\ notes[read.id].modified_at > notes[read.id].created_at

\* a PUT that carries completed only was answered 200 on a todo
C35_WitnessTodo ==
    /\ read.op = "PUT /todos/{id}" /\ read.status = 200
    /\ read.req.content = Nil /\ read.req.note_id = Nil /\ read.req.due_date = Nil
    /\ read.req.completed # Nil
    /\ todos[read.id].completed
    /\ todos[read.id].content = TenantCreateTodo.content

\* a PUT on a deleted note was answered 404
C35_WitnessNotFound ==
    /\ read.op = "PUT /notes/{id}" /\ read.status = 404
    /\ read.id \in DOMAIN notes /\ notes[read.id].deleted_at # Nil
    /\ notes[read.id].user_id = read.user

\* the worker of the PUT runs UpdateNote in this step
PutWrites == writer.pc = "read" /\ writer'.pc = "done"

\* the PUT is answered 200 or 404
PutAnswer == PutWrites => writer'.status \in {200, 404}

\* a note that is deleted when UpdateNote runs is left as it is
PutSparesTombstone ==
    PutWrites /\ notes[writer.id].deleted_at # Nil => notes' = notes

\* the fields the body does not carry keep what the table holds when
\* UpdateNote runs
PutKeepsNewer ==
    PutWrites /\ notes[writer.id].deleted_at = Nil =>
        \A f \in {"title", "content", "type"} :
            writer.req[f] = Nil => notes'[writer.id][f] = notes[writer.id][f]

\* C36: when a PUT runs concurrently with a DELETE or a sync push of the
\* same record, in every interleaving of its read and write steps the PUT
\* is answered 200 or 404, a record that is deleted at the moment of the
\* write is not modified, and the fields the PUT did not specify are not
\* reset to values older than those the concurrent push wrote.
C36_PutRace == [][PutAnswer /\ PutSparesTombstone /\ PutKeepsNewer]_vars

\* request r has returned after an auto-refresh with the refresh token of
\* the session it read
AutoRefreshed(r) ==
    /\ devices.req[r].pc = "returned"
    /\ devices.req[r].refreshed

\* the stored session holds tokens the server accepts
SessionValid ==
    /\ devices.session # Nil
    /\ auth(<<devices.session[1].accessToken>>).ok
    /\ GetRefreshTokenByHash(refresh_tokens,
                             HashToken(devices.session[1].refreshToken)) # Nil

\* C37: when the access token has expired while the stored refresh token
\* is valid and the two requests of the client got 401 and each ran the
\* auto-refresh with the refresh token it read, the client ends with a
\* valid stored session and both requests were retried with a valid access
\* token, however the steps of the two interleave.
C37_AutoRefreshKeepsSession ==
    /\ \A r \in ClientRequests : AutoRefreshed(r)
    /\ devices.req[1].session = devices.req[2].session
    => /\ SessionValid
       /\ \A r \in ClientRequests :
            /\ devices.req[r].retried # Nil
            /\ devices.req[r].status = 200

\* every stored todo with a note_id references a note of its own user
TodoRefsOwnNote ==
    \A t \in DOMAIN todos :
        todos[t].note_id # Nil =>
            /\ todos[t].note_id[1] \in DOMAIN notes
            /\ notes[todos[t].note_id[1]].user_id = todos[t].user_id

\* a PUT /todos/{id} that passes validation on a todo of the user and
\* carries a note_id
LinksTodo ==
    /\ Answered /\ read'.op = "PUT /todos/{id}"
    /\ read'.status \notin {400, 404}
    /\ read'.req.note_id # Nil

\* the request names a note of another user / a note that does not exist
LinksForeign ==
    /\ LinksTodo
    /\ read'.req.note_id[1] \in DOMAIN notes
    /\ notes[read'.req.note_id[1]].user_id # read'.user

LinksMissing == LinksTodo /\ read'.req.note_id[1] \notin DOMAIN notes

\* the response to a note_id of no note (the foreign key fails) is also
\* the response to a note_id of another user's note
ForeignAsMissing ==
    /\ LinksMissing => read'.status = 500 /\ todos' = todos
    /\ LinksForeign => read'.status = 500 /\ todos' = todos

\* C38: a todo never points into another tenant: every stored todo whose
\* note_id is set references a note of the todo's user, and a write of a
\* todo with a note_id gets the same response whether the id is that of
\* another user's note or of no note.
C38_TodoStaysInTenant == []TodoRefsOwnNote /\ [][ForeignAsMissing]_vars

\* a round of device d ends in this step
RoundEnds(d) == devices[d].pc # "idle" /\ devices'[d].pc = "idle"

\* the stored cursor of d moves only in the last step of a round whose
\* delta was applied and whose push, if any, succeeded, and then to the
\* sync_timestamp of the round's pull
CursorAfterSuccess(d) ==
    devices'[d].last_sync # devices[d].last_sync =>
        /\ RoundEnds(d) /\ devices[d].pc = "pushed"
        /\ devices'[d].ended = "done"
        /\ devices'[d].last_sync = devices[d].changes.sync_timestamp
        /\ devices'[d].syncStatus = "idle"

\* a round that fails keeps the cursor and sets the status error
FailureKeepsCursor(d) ==
    RoundEnds(d) /\ devices'[d].ended # "done" =>
        /\ devices'[d].last_sync = devices[d].last_sync
        /\ devices'[d].last_sync = devices[d].lastSync
        /\ devices'[d].syncStatus = "error"

\* a round works from the stored cursor: the one the failed round before
\* it used
RoundFromCursor(d) ==
    /\ devices[d].pc = "idle" /\ devices'[d].pc = "begun" =>
           devices'[d].lastSync = devices[d].last_sync
    /\ devices[d].pc = "begun" /\ devices'[d].pc = "pulled" =>
           pull'.since = devices[d].last_sync
    /\ devices[d].pc = "applied" => devices[d].lastSync = devices[d].last_sync

\* no step of doSync that returns leaves the status at syncing
NotLeftSyncing(d) ==
    devices' # devices /\ devices'[d].pc = "idle" =>
        devices'[d].syncStatus # "syncing"

\* C39: the client cursor advances only on a fully successful round:
\* last_sync is set to the sync_timestamp of the round's pull only after
\* the delta was applied and the push (if any) succeeded; if the pull, the
\* apply or the push fails, last_sync keeps its value, the status becomes
\* error and the next round pulls and pushes from the same cursor; the
\* status is never syncing when a round has ended.
C39_CursorOnSuccess ==
    [][\A d \in RoundDevices :
         /\ CursorAfterSuccess(d)
         /\ FailureKeepsCursor(d)
         /\ RoundFromCursor(d)
         /\ NotLeftSyncing(d)]_vars

\* a round failed in its push after a round that had moved the cursor, the
\* cursor is still that of the earlier round and a local edit waits
C39_Witness ==
    \E d \in RoundDevices :
        /\ devices[d].pc = "idle" /\ devices[d].ended = "push"
        /\ devices[d].syncStatus = "error"
        /\ devices[d].last_sync > 0
        /\ devices[d].changes.sync_timestamp > devices[d].last_sync
        /\ getLocalChanges(devices[d].notes, devices[d].last_sync) # << >>

\* a round ended well with a pushed edit and a moved cursor
C39_WitnessDone ==
    \E d \in RoundDevices :
        /\ devices[d].pc = "idle" /\ devices[d].ended = "done"
        /\ devices[d].syncStatus = "idle"
        /\ devices[d].last_sync > 0
        /\ \E id \in DOMAIN notes : notes[id].modified_by_device = d

\* a round failed in its pull, another in its apply
C39_WitnessPull ==
    \E d \in RoundDevices :
        devices[d].ended = "pull" /\ devices[d].syncStatus = "error"

C39_WitnessApply ==
    \E d \in RoundDevices :
        /\ devices[d].ended = "apply" /\ devices[d].syncStatus = "error"
        /\ devices[d].changes.notes # << >>
        /\ devices[d].notes = << >>

\* every call of allow returns what the limiter that is never swept returns
SameResult == limiter.ok = limiter.plainOk

\* a run of cleanup (a step that changes rl.windows without a call of
\* allow) removes only windows whose reset time has passed and leaves the
\* others as they are
SweepsExpired ==
    limiter'.plain = limiter.plain /\ limiter'.windows # limiter.windows =>
        /\ DOMAIN limiter'.windows \subseteq DOMAIN limiter.windows
        /\ \A k \in DOMAIN limiter'.windows :
             limiter'.windows[k] = limiter.windows[k]
        /\ \A k \in DOMAIN limiter.windows \ DOMAIN limiter'.windows :
             limiter.clock > limiter.windows[k].resetAt

\* C40: the background sweep is transparent: in every sequence of allow
\* calls with any key at any time, interleaved with cleanup runs at any
\* time, each call returns what it returns in the same sequence without
\* cleanup runs, and cleanup removes only windows whose reset time has
\* passed.
C40_CleanupTransparent == []SameResult /\ [][SweepsExpired]_vars

\* allow was called for a key whose window a sweep had removed, while the
\* window of the other key is over the limit
C40_Witness ==
    /\ limiter.after /\ limiter.ok
    /\ \E k \in DOMAIN limiter.windows : limiter.windows[k].count > authLimit

\* allow refused a call after a sweep had removed the other key's window
C40_WitnessRefused ==
    /\ ~limiter.ok /\ limiter.swept # {}

====
